---- MODULE Spec2Model ----
(***************************************************************************)
(* Gesture dispatch pipeline of Hand_control: the cooldown gate and the    *)
(* key / mouse dispatch of core/input_simulator.py, driven through         *)
(* MainWindow.process_control and the mapping table of                     *)
(* core/gesture_mapping.py.                                                *)
(*                                                                         *)
(* Time is counted in ticks of 0.1 s.  A Python string that the code       *)
(* inspects character by character (action_value, key names) is a          *)
(* sequence of one-character strings; a string that is only compared for   *)
(* equality (gesture id, action_type) is a TLA+ string.                    *)
(***************************************************************************)
EXTENDS Integers, Sequences, FiniteSets, TLC

(* ---------------------------- bounds ----------------------------------- *)

\* clock reading when the application starts (time.time() is far from 0)
StartTime == 10
\* largest index of an injection-primitive call that may raise
MaxFailAt == 2

\* offsets (ticks) from StartTime at which the clock is read
Offsets == {0, 3, 6}
Instants == {StartTime + o : o \in Offsets}

(* ---------------------- Python string helpers -------------------------- *)

UpperChars == <<"A","B","C","D","E","F","G","H","I","J","K","L","M",
                "N","O","P","Q","R","S","T","U","V","W","X","Y","Z">>
LowerChars == <<"a","b","c","d","e","f","g","h","i","j","k","l","m",
                "n","o","p","q","r","s","t","u","v","w","x","y","z">>
Whitespace == {" ", "\t", "\n"}

\* str.lower() on one character
LowerChar(c) ==
  IF \E i \in 1..Len(UpperChars) : UpperChars[i] = c
  THEN LowerChars[CHOOSE i \in 1..Len(UpperChars) : UpperChars[i] = c]
  ELSE c

\* str.lower()
Lower(s) == [i \in 1..Len(s) |-> LowerChar(s[i])]

RECURSIVE LStrip(_)
LStrip(s) ==
  IF s # <<>> /\ Head(s) \in Whitespace THEN LStrip(Tail(s)) ELSE s

RECURSIVE RStrip(_)
RStrip(s) ==
  IF s # <<>> /\ s[Len(s)] \in Whitespace
  THEN RStrip(SubSeq(s, 1, Len(s) - 1)) ELSE s

\* str.strip()
Strip(s) == RStrip(LStrip(s))

\* str.split(sep) for a one-character separator
RECURSIVE Split(_, _)
Split(s, sep) ==
  IF \E i \in 1..Len(s) : s[i] = sep
  THEN LET i == CHOOSE j \in 1..Len(s) :
                  s[j] = sep /\ \A k \in 1..(j - 1) : s[k] # sep
       IN <<SubSeq(s, 1, i - 1)>> \o Split(SubSeq(s, i + 1, Len(s)), sep)
  ELSE <<s>>

\* the Python test `sub in s`
Contains(s, sub) ==
  \E i \in 1..(Len(s) - Len(sub) + 1) : SubSeq(s, i, i + Len(sub) - 1) = sub

\* reversed(seq)
Reversed(seq) == [i \in 1..Len(seq) |-> seq[Len(seq) + 1 - i]]

(* ------------------------- input_simulator.py -------------------------- *)

\* InputSimulator.SPECIAL_KEYS: <<name, pynput Key member>>
SPECIAL_KEYS ==
  {
      <<<<"s", "p", "a", "c", "e">>, "space">>,
      <<<<"e", "n", "t", "e", "r">>, "enter">>,
      <<<<"e", "s", "c", "a", "p", "e">>, "esc">>,
      <<<<"e", "s", "c">>, "esc">>,
      <<<<"t", "a", "b">>, "tab">>,
      <<<<"b", "a", "c", "k", "s", "p", "a", "c", "e">>, "backspace">>,
      <<<<"d", "e", "l", "e", "t", "e">>, "delete">>,
      <<<<"u", "p">>, "up">>,
      <<<<"d", "o", "w", "n">>, "down">>,
      <<<<"l", "e", "f", "t">>, "left">>,
      <<<<"r", "i", "g", "h", "t">>, "right">>,
      <<<<"h", "o", "m", "e">>, "home">>,
      <<<<"e", "n", "d">>, "end">>,
      <<<<"p", "a", "g", "e", "_", "u", "p">>, "page_up">>,
      <<<<"p", "a", "g", "e", "_", "d", "o", "w", "n">>, "page_down">>,
      <<<<"i", "n", "s", "e", "r", "t">>, "insert">>,
      <<<<"f", "1">>, "f1">>,
      <<<<"f", "2">>, "f2">>,
      <<<<"f", "3">>, "f3">>,
      <<<<"f", "4">>, "f4">>,
      <<<<"f", "5">>, "f5">>,
      <<<<"f", "6">>, "f6">>,
      <<<<"f", "7">>, "f7">>,
      <<<<"f", "8">>, "f8">>,
      <<<<"f", "9">>, "f9">>,
      <<<<"f", "1", "0">>, "f10">>,
      <<<<"f", "1", "1">>, "f11">>,
      <<<<"f", "1", "2">>, "f12">>,
      <<<<"c", "t", "r", "l">>, "ctrl">>,
      <<<<"c", "t", "r", "l", "_", "l">>, "ctrl_l">>,
      <<<<"c", "t", "r", "l", "_", "r">>, "ctrl_r">>,
      <<<<"a", "l", "t">>, "alt">>,
      <<<<"a", "l", "t", "_", "l">>, "alt_l">>,
      <<<<"a", "l", "t", "_", "r">>, "alt_r">>,
      <<<<"s", "h", "i", "f", "t">>, "shift">>,
      <<<<"s", "h", "i", "f", "t", "_", "l">>, "shift_l">>,
      <<<<"s", "h", "i", "f", "t", "_", "r">>, "shift_r">>,
      <<<<"c", "a", "p", "s", "_", "l", "o", "c", "k">>, "caps_lock">>,
      <<<<"n", "u", "m", "_", "l", "o", "c", "k">>, "num_lock">>,
      <<<<"p", "r", "i", "n", "t", "_", "s", "c", "r", "e", "e", "n">>, "print_screen">>,
      <<<<"p", "a", "u", "s", "e">>, "pause">>,
      <<<<"m", "e", "d", "i", "a", "_", "p", "l", "a", "y", "_", "p", "a", "u", "s", "e">>, "media_play_pause">>,
      <<<<"m", "e", "d", "i", "a", "_", "n", "e", "x", "t">>, "media_next">>,
      <<<<"m", "e", "d", "i", "a", "_", "p", "r", "e", "v", "i", "o", "u", "s">>, "media_previous">>,
      <<<<"m", "e", "d", "i", "a", "_", "v", "o", "l", "u", "m", "e", "_", "u", "p">>, "media_volume_up">>,
      <<<<"m", "e", "d", "i", "a", "_", "v", "o", "l", "u", "m", "e", "_", "d", "o", "w", "n">>, "media_volume_down">>,
      <<<<"m", "e", "d", "i", "a", "_", "v", "o", "l", "u", "m", "e", "_", "m", "u", "t", "e">>, "media_volume_mute">>
  }

\* InputSimulator.MOUSE_BUTTONS: <<name, pynput Button member>>
MOUSE_BUTTONS ==
  {
      <<<<"l", "e", "f", "t", "_", "c", "l", "i", "c", "k">>, "left">>,
      <<<<"r", "i", "g", "h", "t", "_", "c", "l", "i", "c", "k">>, "right">>,
      <<<<"m", "i", "d", "d", "l", "e", "_", "c", "l", "i", "c", "k">>, "middle">>
  }

\* dict membership and lookup on a table of <<name, value>> pairs
InTable(tbl, k) == \E p \in tbl : p[1] = k
Lookup(tbl, k) == (CHOOSE p \in tbl : p[1] = k)[2]

\* the value None, a pynput Key member, a literal character, a Button member
None == [kind |-> "None", name |-> ""]
KeyRef(k) == [kind |-> "Key", name |-> k]
CharRef(c) == [kind |-> "char", name |-> c]
ButtonRef(b) == [kind |-> "Button", name |-> b]

\* Python truthiness of an Optional[Union[Key, str]] (a one-character
\* string and an Enum member are truthy, None is not)
Truthy(v) == v # None

\* one call of an injection primitive (pynput Controller method)
Event(ev, target, x, y) == [ev |-> ev, target |-> target, x |-> x, y |-> y]
Press(key) == Event("press", key, 0, 0)
Release(key) == Event("release", key, 0, 0)
Click(btn, count) == Event("click", btn, count, 0)
Scroll(dx, dy) == Event("scroll", None, dx, dy)
Move(dx, dy) == Event("move", None, dx, dy)

\* cooldown set by __init__ (0.5 s) and floor of set_cooldown (0.1 s)
DefaultCooldown == 5
CooldownFloor == 1

VARIABLES
  now,               \* reading of time.time(), in ticks
  last_action_time,  \* InputSimulator._last_action_time
  action_cooldown,   \* InputSimulator._action_cooldown
  mappings,          \* GestureMappingManager.mappings: id -> GestureMapping
  call,              \* the most recent step: the method called, its arguments
                     \* and the cooldown state it started from
  sent,              \* injection-primitive calls made by that step, in order
  result,            \* its return value (FALSE when it returns nothing)
  custom_gestures_data,  \* GestureMappingManager._custom_gestures_data
  settings,          \* GestureMappingManager._settings
  document,          \* the configuration file at config_path
  objects,           \* dict objects of the detector: identity -> entries
  custom_templates,  \* GestureDetector.custom_templates: the dict installed
  enable_predefined_gestures,  \* GestureDetector.enable_predefined_gestures
  current_landmarks, \* the frame most recently given to _recognize_gesture
  decision,          \* what _recognize_gesture returned for it
  worker,            \* the camera thread: where it is in _recognize_gesture
  main,              \* the UI thread: the handler it runs and where it is
  camera_worker,     \* the fields of the CameraWorker object
  camera_preview,    \* the fields of the CameraPreview widget
  main_window        \* the fields of the MainWindow

vars == <<now, last_action_time, action_cooldown, mappings, call, sent, result,
          custom_gestures_data, settings, document, objects, custom_templates,
          enable_predefined_gestures, current_landmarks, decision, worker,
          main, camera_worker, camera_preview, main_window>>

\* the detector and the two threads
detectorVars ==
  <<objects, custom_templates, enable_predefined_gestures, current_landmarks,
    decision>>
threadVars == <<worker, main>>
\* the camera worker, the preview widget and the main window
uiVars == <<camera_worker, camera_preview, main_window>>

\* a thread that is not inside any of the modelled calls
Idle == [pc |-> "idle"]

\* CameraWorker.detector is None: no detector object exists
NoDetector ==
  /\ objects = [k \in {} |-> 0]
  /\ custom_templates = 0
  /\ enable_predefined_gestures = FALSE
  /\ current_landmarks = <<>>
  /\ decision = [gesture_type |-> "none", confidence |-> 0, gesture_id |-> ""]
  /\ worker = Idle
  /\ main = Idle

\* CameraWorker.__init__, CameraPreview.__init__ and the state variables of
\* MainWindow.__init__: nothing started, control off
NotStarted ==
  /\ camera_worker = [source |-> 0, camera |-> [kind |-> "None"],
                      running |-> FALSE, detector |-> [kind |-> "None"],
                      pending_custom_templates |-> [kind |-> "None"],
                      pending_gesture_names |-> [kind |-> "None"]]
  /\ camera_preview = [is_running |-> FALSE]
  /\ main_window = [is_controlling |-> FALSE, last_gesture |-> "none"]

\* what the dispatch path never touches
storeVars == <<custom_gestures_data, settings, document>>

\* the empty dict
EmptyDict == [k \in {} |-> 0]
\* no file at config_path
MissingDocument == [kind |-> "missing"]

Max(a, b) == IF a >= b THEN a ELSE b

\* InputSimulator.can_execute, with the clock reading made explicit
can_execute(current_time) ==
  current_time - last_action_time >= action_cooldown

\* set_cooldown without the floor
set_cooldown_unfloored(seconds) == seconds

\* InputSimulator.set_cooldown: the value stored
set_cooldown(seconds) == Max(CooldownFloor, seconds)

\* _parse_key resolving the empty name to the space key
parse_key_empty_as_space(key_str) ==
  LET key_lower == Strip(Lower(key_str))
  IN IF InTable(SPECIAL_KEYS, key_lower)
     THEN KeyRef(Lookup(SPECIAL_KEYS, key_lower))
     ELSE IF Len(key_str) = 1
          THEN CharRef(key_str[1])
          ELSE IF key_str = <<>> THEN KeyRef("space") ELSE None

\* InputSimulator._parse_key
parse_key(key_str) ==
  LET key_lower == Strip(Lower(key_str))
  IN IF InTable(SPECIAL_KEYS, key_lower)
     THEN KeyRef(Lookup(SPECIAL_KEYS, key_lower))
     ELSE IF Len(key_str) = 1
          THEN CharRef(key_str[1])
          ELSE None

\* What a sending method hands back: its return value, the primitive calls
\* it made, whether it assigned _last_action_time, whether a primitive raised.
Outcome(ok, evs, recorded, raised) ==
  [ok |-> ok, sent |-> evs, recorded |-> recorded, raised |-> raised]
NotSent == Outcome(FALSE, <<>>, FALSE, FALSE)

\* The primitive calls evs made in order inside a try block; call number
\* failAt raises (0, or an index past the last call: none does).
Raises(evs, failAt) == failAt \in 1..Len(evs)
Delivered(evs, failAt) ==
  IF Raises(evs, failAt) THEN SubSeq(evs, 1, failAt - 1) ELSE evs

\* press_key recording the fire time although a primitive raised
press_key_recording_failure(key_str, current_time, failAt) ==
  IF ~can_execute(current_time) THEN NotSent
  ELSE LET key == parse_key(key_str)
           evs == <<Press(key), Release(key)>>
       IN IF Truthy(key)
          THEN IF Raises(evs, failAt)
               THEN Outcome(FALSE, Delivered(evs, failAt), TRUE, TRUE)
               ELSE Outcome(TRUE, evs, TRUE, FALSE)
          ELSE NotSent

\* InputSimulator.press_key
press_key(key_str, current_time, failAt) ==
  IF ~can_execute(current_time) THEN NotSent
  ELSE LET key == parse_key(key_str)
           evs == <<Press(key), Release(key)>>
       IN IF Truthy(key)
          THEN IF Raises(evs, failAt)
               THEN Outcome(FALSE, Delivered(evs, failAt), FALSE, TRUE)
               ELSE Outcome(TRUE, evs, TRUE, FALSE)
          ELSE NotSent

\* press_key_combo pressing each key as soon as it resolves and giving up at
\* the first name that does not
press_key_combo_eager(keys, current_time, failAt) ==
  IF ~can_execute(current_time) THEN NotSent
  ELSE LET parsed_keys == [i \in 1..Len(keys) |-> parse_key(keys[i])]
           resolved == {n \in 0..Len(keys) :
                          \A i \in 1..n : Truthy(parsed_keys[i])}
           n == CHOOSE m \in resolved : \A k \in resolved : k <= m
           presses == [i \in 1..n |-> Press(parsed_keys[i])]
           releases == [i \in 1..n |-> Release(parsed_keys[n + 1 - i])]
       IN IF n = Len(keys)
          THEN IF Raises(presses \o releases, failAt)
               THEN Outcome(FALSE, Delivered(presses \o releases, failAt), FALSE, TRUE)
               ELSE Outcome(TRUE, presses \o releases, TRUE, FALSE)
          ELSE Outcome(FALSE, Delivered(presses, failAt), FALSE, Raises(presses, failAt))

\* press_key_combo releasing the keys in the order they were pressed
press_key_combo_forward_release(keys, current_time, failAt) ==
  IF ~can_execute(current_time) THEN NotSent
  ELSE LET parsed_keys == [i \in 1..Len(keys) |-> parse_key(keys[i])]
           presses == [i \in 1..Len(keys) |-> Press(parsed_keys[i])]
           releases == [i \in 1..Len(keys) |-> Release(parsed_keys[i])]
           evs == presses \o releases
       IN IF \A i \in 1..Len(keys) : Truthy(parsed_keys[i])
          THEN IF Raises(evs, failAt)
               THEN Outcome(FALSE, Delivered(evs, failAt), FALSE, TRUE)
               ELSE Outcome(TRUE, evs, TRUE, FALSE)
          ELSE NotSent

\* InputSimulator.press_key_combo
press_key_combo(keys, current_time, failAt) ==
  IF ~can_execute(current_time) THEN NotSent
  ELSE LET parsed_keys == [i \in 1..Len(keys) |-> parse_key(keys[i])]
           presses == [i \in 1..Len(keys) |-> Press(parsed_keys[i])]
           releases == [i \in 1..Len(keys) |-> Release(Reversed(parsed_keys)[i])]
           evs == presses \o releases
       IN IF \A i \in 1..Len(keys) : Truthy(parsed_keys[i])
          THEN IF Raises(evs, failAt)
               THEN Outcome(FALSE, Delivered(evs, failAt), FALSE, TRUE)
               ELSE Outcome(TRUE, evs, TRUE, FALSE)
          ELSE NotSent

\* mouse_click without the cooldown check
mouse_click_ungated(button, count, current_time, failAt) ==
  LET btn == IF InTable(MOUSE_BUTTONS, button)
             THEN ButtonRef(Lookup(MOUSE_BUTTONS, button))
             ELSE ButtonRef("left")
      evs == <<Click(btn, count)>>
  IN IF Raises(evs, failAt)
     THEN Outcome(FALSE, Delivered(evs, failAt), FALSE, TRUE)
     ELSE Outcome(TRUE, evs, TRUE, FALSE)

\* mouse_click treating a name outside MOUSE_BUTTONS as a failure
mouse_click_strict(button, count, current_time, failAt) ==
  IF ~can_execute(current_time) THEN NotSent
  ELSE IF ~InTable(MOUSE_BUTTONS, button) THEN NotSent
  ELSE LET evs == <<Click(ButtonRef(Lookup(MOUSE_BUTTONS, button)), count)>>
       IN IF Raises(evs, failAt)
          THEN Outcome(FALSE, Delivered(evs, failAt), FALSE, TRUE)
          ELSE Outcome(TRUE, evs, TRUE, FALSE)

\* InputSimulator.mouse_click
mouse_click(button, count, current_time, failAt) ==
  IF ~can_execute(current_time) THEN NotSent
  ELSE LET btn == IF InTable(MOUSE_BUTTONS, button)
                  THEN ButtonRef(Lookup(MOUSE_BUTTONS, button))
                  ELSE ButtonRef("left")
           evs == <<Click(btn, count)>>
       IN IF Raises(evs, failAt)
          THEN Outcome(FALSE, Delivered(evs, failAt), FALSE, TRUE)
          ELSE Outcome(TRUE, evs, TRUE, FALSE)

\* InputSimulator.mouse_move: no cooldown check, no time recorded
mouse_move(dx, dy, failAt) ==
  LET evs == <<Move(dx, dy)>>
  IN IF Raises(evs, failAt)
     THEN Outcome(FALSE, Delivered(evs, failAt), FALSE, TRUE)
     ELSE Outcome(TRUE, evs, FALSE, FALSE)

\* mouse_scroll without the cooldown check (as mouse_move is written)
mouse_scroll_ungated(dx, dy, current_time, failAt) ==
  LET evs == <<Scroll(dx, dy)>>
  IN IF Raises(evs, failAt)
     THEN Outcome(FALSE, Delivered(evs, failAt), FALSE, TRUE)
     ELSE Outcome(TRUE, evs, TRUE, FALSE)

\* InputSimulator.mouse_scroll
mouse_scroll(dx, dy, current_time, failAt) ==
  IF ~can_execute(current_time) THEN NotSent
  ELSE LET evs == <<Scroll(dx, dy)>>
       IN IF Raises(evs, failAt)
          THEN Outcome(FALSE, Delivered(evs, failAt), FALSE, TRUE)
          ELSE Outcome(TRUE, evs, TRUE, FALSE)

\* execute_action routing the declared action type mouse_move to mouse_move
execute_action_routing_move(action_type, action_value, current_time, failAt) ==
  IF action_type = "key"
  THEN press_key(action_value, current_time, failAt)
  ELSE IF action_type = "key_combo"
  THEN LET parts == Split(action_value, "+")
           keys == [i \in 1..Len(parts) |-> Strip(parts[i])]
       IN press_key_combo(keys, current_time, failAt)
  ELSE IF action_type = "mouse"
  THEN IF Contains(action_value, <<"c", "l", "i", "c", "k">>)
       THEN mouse_click(action_value, 1, current_time, failAt)
       ELSE IF action_value = <<"s", "c", "r", "o", "l", "l", "_", "u", "p">>
       THEN mouse_scroll(0, 3, current_time, failAt)
       ELSE IF action_value = <<"s", "c", "r", "o", "l", "l", "_", "d", "o", "w", "n">>
       THEN mouse_scroll(0, -3, current_time, failAt)
       ELSE NotSent
  ELSE IF action_type = "mouse_move"
  THEN mouse_move(0, 0, failAt)
  ELSE NotSent

\* InputSimulator.execute_action
execute_action(action_type, action_value, current_time, failAt) ==
  IF action_type = "key"
  THEN press_key(action_value, current_time, failAt)
  ELSE IF action_type = "key_combo"
  THEN LET parts == Split(action_value, "+")
           keys == [i \in 1..Len(parts) |-> Strip(parts[i])]
       IN press_key_combo(keys, current_time, failAt)
  ELSE IF action_type = "mouse"
  THEN IF Contains(action_value, <<"c", "l", "i", "c", "k">>)
       THEN mouse_click(action_value, 1, current_time, failAt)
       ELSE IF action_value = <<"s", "c", "r", "o", "l", "l", "_", "u", "p">>
       THEN mouse_scroll(0, 3, current_time, failAt)
       ELSE IF action_value = <<"s", "c", "r", "o", "l", "l", "_", "d", "o", "w", "n">>
       THEN mouse_scroll(0, -3, current_time, failAt)
       ELSE NotSent
  ELSE NotSent

(* -------------------------- gesture_mapping.py ------------------------- *)

\* dataclass GestureMapping
GestureMapping(id, name, action_type, action_value, enabled) ==
  [id |-> id, name |-> name, action_type |-> action_type,
   action_value |-> action_value, enabled |-> enabled]

\* GestureMappingManager.PREDEFINED_GESTURES (display names in ASCII)
PREDEFINED_GESTURES ==
  <<  <<"fist", "WoQuan">>,
      <<"open_palm", "ZhangKaiShouZhang">>,
      <<"thumbs_up", "ShuQiDaMuZhi">>,
      <<"victory", "ShengLiShouShi">>,
      <<"point_up", "ShuQiShiZhi">>  >>

PredefinedIds == {PREDEFINED_GESTURES[i][1] : i \in 1..Len(PREDEFINED_GESTURES)}

\* default_actions of _create_default_mappings
default_actions ==
  [g \in PredefinedIds |->
     CASE g = "fist" -> <<"key", <<"s", "p", "a", "c", "e">>>>
       [] g = "open_palm" -> <<"key", <<"e", "s", "c", "a", "p", "e">>>>
       [] g = "thumbs_up" -> <<"key", <<"e", "n", "t", "e", "r">>>>
       [] g = "victory" -> <<"key", <<"v">>>>
       [] g = "point_up" -> <<"mouse", <<"l", "e", "f", "t", "_", "c", "l", "i", "c", "k">>>>]

\* GestureMappingManager._create_default_mappings: the table it builds
create_default_mappings ==
  [g \in PredefinedIds |->
     LET name == (CHOOSE i \in 1..Len(PREDEFINED_GESTURES) :
                     PREDEFINED_GESTURES[i][1] = g)
     IN GestureMapping(g, PREDEFINED_GESTURES[name][2],
                       default_actions[g][1], default_actions[g][2], TRUE)]

\* GestureMappingManager.get_mapping (None when the id has no mapping)
HasMapping(gesture_id) == gesture_id \in DOMAIN mappings
get_mapping(gesture_id) == mappings[gesture_id]

\* update_mapping that creates the mapping of an id that has none
update_mapping_creating(gesture_id, action_type, action_value, enabled) ==
  [g \in DOMAIN mappings \cup {gesture_id} |->
     IF g = gesture_id
     THEN GestureMapping(gesture_id, gesture_id, action_type, action_value,
                         enabled)
     ELSE mappings[g]]

\* GestureMappingManager.update_mapping: the table after the call
update_mapping(gesture_id, action_type, action_value, enabled) ==
  IF gesture_id \in DOMAIN mappings
  THEN [mappings EXCEPT ![gesture_id].action_type = action_type,
                        ![gesture_id].action_value = action_value,
                        ![gesture_id].enabled = enabled]
  ELSE mappings

\* set_enabled that writes the flag of every mapping
set_enabled_all(gesture_id, enabled) ==
  IF gesture_id \in DOMAIN mappings
  THEN [g \in DOMAIN mappings |-> [mappings[g] EXCEPT !.enabled = enabled]]
  ELSE mappings

\* GestureMappingManager.set_enabled: the table after the call
set_enabled(gesture_id, enabled) ==
  IF gesture_id \in DOMAIN mappings
  THEN [mappings EXCEPT ![gesture_id].enabled = enabled]
  ELSE mappings

(* ---------------------------- main_window.py --------------------------- *)

\* MainWindow.process_control: which branch it took and what the
\* simulator did
Dispatch(stage, action_type, action_value, out) ==
  [stage |-> stage, action_type |-> action_type,
   action_value |-> action_value, out |-> out]

\* process_control not looking at the enabled flag
process_control_ignoring_enabled(gesture_id, current_time, failAt) ==
  IF ~HasMapping(gesture_id)
  THEN Dispatch("no_mapping", "", <<>>, NotSent)
  ELSE LET mapping == get_mapping(gesture_id)
       IN Dispatch("executed", mapping.action_type, mapping.action_value,
                   execute_action(mapping.action_type, mapping.action_value,
                                  current_time, failAt))

process_control(gesture_id, current_time, failAt) ==
  IF ~HasMapping(gesture_id)
  THEN Dispatch("no_mapping", "", <<>>, NotSent)
  ELSE LET mapping == get_mapping(gesture_id)
       IN IF mapping.enabled
          THEN Dispatch("executed", mapping.action_type, mapping.action_value,
                        execute_action(mapping.action_type,
                                       mapping.action_value,
                                       current_time, failAt))
          ELSE Dispatch("disabled", mapping.action_type,
                        mapping.action_value, NotSent)

(* ------------------------------ inputs --------------------------------- *)

\* gesture ids handed to process_control ("" is the id of a None decision)
GestureInputs == {"fist", "point_up", ""}
\* gesture ids whose mapping is edited
EditInputs == {"fist"}
\* arguments of set_cooldown, in ticks
CooldownInputs == {-1, 0, 3, 5}

\* <<action_type, action_value>> pairs given to update_mapping
KeyChoices ==
  { <<"key", <<"a">>>>, <<"key", <<" ", "a">>>>, <<"key", <<" ", "E", "s", "c", " ">>>>, <<"key", <<"?", "?">>>>,
    <<"key", <<>>>> }
ComboChoices ==
  { <<"key_combo", <<"C", "t", "r", "l", " ", "+", " ", "s", "h", "i", "f", "t", "+", "x">>>>, <<"key_combo", <<"c", "t", "r", "l", "+", "?", "?">>>> }
MouseChoices ==
  { <<"mouse", <<"r", "i", "g", "h", "t", "_", "c", "l", "i", "c", "k">>>>, <<"mouse", <<"d", "o", "u", "b", "l", "e", "_", "c", "l", "i", "c", "k">>>>,
    <<"mouse", <<"m", "i", "d", "d", "l", "e", "_", "c", "l", "i", "c", "k">>>>, <<"mouse", <<"r", "i", "g", "h", "t">>>>,
    <<"mouse", <<"s", "c", "r", "o", "l", "l", "_", "u", "p">>>>,
    <<"mouse", <<"s", "c", "r", "o", "l", "l", "_", "d", "o", "w", "n">>>> }
OtherChoices ==
  { <<"mouse_move", <<"l", "e", "f", "t", "_", "c", "l", "i", "c", "k">>>>, <<"mouse_scroll", <<"s", "c", "r", "o", "l", "l", "_", "u", "p">>>> }
ActionChoices == KeyChoices \cup ComboChoices \cup MouseChoices \cup OtherChoices

(* --------------------------- state machine ----------------------------- *)

\* the record kept in `call`
Call(op, gesture_id, stage, action_type, action_value, raised, seconds) ==
  [op |-> op, gesture_id |-> gesture_id, stage |-> stage,
   action_type |-> action_type, action_value |-> action_value,
   raised |-> raised, seconds |-> seconds,
   last_before |-> last_action_time, cooldown_before |-> action_cooldown]

\* MainWindow.__init__: GestureMappingManager() without a configuration
\* document (default table) and InputSimulator()
Init ==
  /\ now = StartTime
  /\ last_action_time = 0
  /\ action_cooldown = DefaultCooldown
  /\ mappings = create_default_mappings
  /\ call = [op |-> "init", gesture_id |-> "", stage |-> "",
             action_type |-> "", action_value |-> <<>>,
             raised |-> FALSE, seconds |-> 0,
             last_before |-> 0, cooldown_before |-> DefaultCooldown]
  /\ sent = <<>>
  /\ result = FALSE
  /\ custom_gestures_data = EmptyDict
  /\ settings = EmptyDict
  /\ document = MissingDocument
  /\ NoDetector
  /\ NotStarted

\* the clock advances between two calls
Tick ==
  /\ \E t \in Instants : t > now /\ now' = t
  /\ call' = Call("tick", "", "", "", <<>>, FALSE, 0)
  /\ sent' = <<>>
  /\ result' = FALSE
  /\ UNCHANGED <<last_action_time, action_cooldown, mappings>>
  /\ UNCHANGED storeVars
  /\ UNCHANGED <<detectorVars, threadVars, uiVars>>

\* one gesture decision dispatched by MainWindow.process_control; the clock
\* reading of can_execute and the one stored on a fire fall in the same tick
ProcessControl ==
  \E gesture_id \in GestureInputs, failAt \in 0..MaxFailAt :
    \E d \in {process_control(gesture_id, now, failAt)} :
       /\ last_action_time' = IF d.out.recorded THEN now ELSE last_action_time
       /\ sent' = d.out.sent
       /\ result' = d.out.ok
       /\ call' = Call("process_control", gesture_id, d.stage, d.action_type,
                       d.action_value, d.out.raised, 0)
       /\ UNCHANGED <<now, action_cooldown, mappings>>
       /\ UNCHANGED storeVars
       /\ UNCHANGED <<detectorVars, threadVars, uiVars>>

\* InputSimulator.set_cooldown
SetCooldown ==
  \E seconds \in CooldownInputs :
    /\ action_cooldown' = set_cooldown(seconds)
    /\ call' = Call("set_cooldown", "", "", "", <<>>, FALSE, seconds)
    /\ sent' = <<>>
    /\ result' = FALSE
    /\ UNCHANGED <<now, last_action_time, mappings>>
    /\ UNCHANGED storeVars
    /\ UNCHANGED <<detectorVars, threadVars, uiVars>>

\* GestureMappingManager.update_mapping, called as the edit dialog calls it
\* (enabled left at its default, True)
UpdateMapping ==
  \E gesture_id \in EditInputs, choice \in ActionChoices :
    /\ mappings' = update_mapping(gesture_id, choice[1], choice[2], TRUE)
    /\ call' = Call("update_mapping", gesture_id, "", "", <<>>, FALSE, 0)
    /\ sent' = <<>>
    /\ result' = (gesture_id \in DOMAIN mappings)
    /\ UNCHANGED <<now, last_action_time, action_cooldown>>
    /\ UNCHANGED storeVars
    /\ UNCHANGED <<detectorVars, threadVars, uiVars>>

\* GestureMappingManager.set_enabled
SetEnabled ==
  \E gesture_id \in EditInputs, enabled \in BOOLEAN :
    /\ mappings' = set_enabled(gesture_id, enabled)
    /\ call' = Call("set_enabled", gesture_id, "", "", <<>>, FALSE, 0)
    /\ sent' = <<>>
    /\ result' = (gesture_id \in DOMAIN mappings)
    /\ UNCHANGED <<now, last_action_time, action_cooldown>>
    /\ UNCHANGED storeVars
    /\ UNCHANGED <<detectorVars, threadVars, uiVars>>

Next == Tick \/ ProcessControl \/ SetCooldown \/ UpdateMapping \/ SetEnabled

Spec == Init /\ [][Next]_vars

TypeOK ==
  /\ now \in Instants
  /\ last_action_time \in {0} \cup Instants
  /\ action_cooldown \in Int
  /\ result \in BOOLEAN

(* ------------------------------ properties ----------------------------- *)

\* the state right after MainWindow.process_control returned
AfterDispatch == call.op = "process_control"
\* ... having reached execute_action
Executed == AfterDispatch /\ call.stage = "executed"
\* the cooldown test at the clock reading of that call
GateOpen == now - call.last_before >= call.cooldown_before
\* that call left the cooldown state as it found it
CooldownStateKept ==
  /\ last_action_time = call.last_before
  /\ action_cooldown = call.cooldown_before
\* the names of a key_combo value as execute_action cuts them
ComboNames(v) == [i \in 1..Len(Split(v, "+")) |-> Strip(Split(v, "+")[i])]

\* one well-formed action of every kind: key, combo, click, scroll
SendableChoices ==
  { <<"key", <<"s", "p", "a", "c", "e">>>>, <<"key", <<"a">>>>, <<"key_combo", <<"C", "t", "r", "l", " ", "+", " ", "s", "h", "i", "f", "t", "+", "x">>>>,
    <<"mouse", <<"l", "e", "f", "t", "_", "c", "l", "i", "c", "k">>>>, <<"mouse", <<"r", "i", "g", "h", "t", "_", "c", "l", "i", "c", "k">>>>,
    <<"mouse", <<"s", "c", "r", "o", "l", "l", "_", "u", "p">>>>, <<"mouse", <<"s", "c", "r", "o", "l", "l", "_", "d", "o", "w", "n">>>> }

\* C1: nothing is sent and nothing fires unless now - last_fire >= cooldown,
\* whatever the gesture and the action kind; a well-formed key, combo, click
\* or scroll action whose send does not fail fires exactly when
\* now - last_fire >= cooldown (with cooldown 0.5 s and a fire at t: no fire
\* at t + 0.3 s, a fire at t + 0.6 s).
C1_CooldownGate ==
  AfterDispatch =>
    /\ (result \/ sent # <<>>) => GateOpen
    /\ (Executed /\ ~call.raised
          /\ <<call.action_type, call.action_value>> \in SendableChoices)
         => (result <=> GateOpen)
    /\ (Executed /\ call.cooldown_before = 5 /\ now - call.last_before = 3)
         => ~result

\* C1 witness: cooldown 0.5 s, previous fire at the start instant t, and a
\* dispatch at t + 0.6 s fires.
C1_Witness ==
  /\ Executed /\ result
  /\ call.cooldown_before = 5
  /\ call.last_before = StartTime
  /\ now = StartTime + 6
  /\ last_action_time = now

\* C2: a key combo with an unresolvable name sends no press and no release,
\* returns not-fired and leaves the cooldown state unchanged.
C2_ComboAllOrNothing ==
  (Executed /\ call.action_type = "key_combo"
     /\ \E i \in 1..Len(ComboNames(call.action_value)) :
           parse_key(ComboNames(call.action_value)[i]) = None)
    => (sent = <<>> /\ ~result /\ CooldownStateKept)

\* C2 witness: the combo ctrl+?? dispatched with the gate open.
C2_Witness ==
  /\ Executed /\ GateOpen
  /\ call.action_type = "key_combo"
  /\ call.action_value = <<"c", "t", "r", "l", "+", "?", "?">>
  /\ sent = <<>> /\ ~result

\* the full event sequence of a combo: presses in order, releases reversed
ComboEvents(ks) ==
  [i \in 1..(2 * Len(ks)) |->
     IF i <= Len(ks) THEN Press(ks[i]) ELSE Release(ks[2 * Len(ks) + 1 - i])]

\* C3: a combo whose names all resolve, dispatched with the gate open, emits
\* the presses in the given order and then the releases in reverse order
\* (ctrl, shift, x: press ctrl, shift, x, release x, shift, ctrl); if a
\* primitive raises, what was emitted is a prefix of that sequence, so no
\* release ever precedes the last press.
C3_ComboOrder ==
  (Executed /\ GateOpen /\ call.action_type = "key_combo"
     /\ \A i \in 1..Len(ComboNames(call.action_value)) :
           parse_key(ComboNames(call.action_value)[i]) # None)
    => LET names == ComboNames(call.action_value)
           ks == [i \in 1..Len(names) |-> parse_key(names[i])]
           full == ComboEvents(ks)
       IN /\ Len(sent) <= Len(full)
          /\ sent = SubSeq(full, 1, Len(sent))
          /\ ~call.raised => (sent = full /\ result)
          /\ call.action_value = <<"C", "t", "r", "l", " ", "+", " ", "s", "h", "i", "f", "t", "+", "x">> /\ ~call.raised =>
               sent = << Press(KeyRef("ctrl")), Press(KeyRef("shift")),
                         Press(CharRef("x")), Release(CharRef("x")),
                         Release(KeyRef("shift")), Release(KeyRef("ctrl")) >>

\* C3 witness: ctrl, shift, x sent completely.
C3_Witness ==
  /\ Executed /\ result
  /\ call.action_type = "key_combo"
  /\ Len(sent) = 6
  /\ sent[3] = Press(CharRef("x")) /\ sent[4] = Release(CharRef("x"))
  /\ sent[6] = Release(KeyRef("ctrl"))

\* C4: dispatching an id without a mapping, or with a disabled mapping,
\* sends nothing, is not-fired and leaves the cooldown state unchanged.
C4_NoMappingOrDisabled ==
  (AfterDispatch
     /\ (call.gesture_id \notin DOMAIN mappings
           \/ ~mappings[call.gesture_id].enabled))
    => (sent = <<>> /\ ~result /\ CooldownStateKept)

\* C4 witness: a disabled mapping dispatched while the gate is open.
C4_Witness ==
  /\ AfterDispatch /\ GateOpen
  /\ call.gesture_id \in DOMAIN mappings
  /\ ~mappings[call.gesture_id].enabled
  /\ sent = <<>> /\ ~result

\* C5: with the gate closed, dispatching an enabled mapping of any kind
\* returns not-fired, sends nothing and leaves last-fire time and cooldown
\* duration unchanged.
C5_ClosedGateNoEffect ==
  (AfterDispatch /\ ~GateOpen
     /\ call.gesture_id \in DOMAIN mappings
     /\ mappings[call.gesture_id].enabled)
    => (sent = <<>> /\ ~result /\ CooldownStateKept)

\* C5 witness: an enabled mouse-click mapping dispatched with the gate closed.
C5_Witness ==
  /\ Executed /\ ~GateOpen
  /\ call.action_type = "mouse"
  /\ call.action_value = <<"l", "e", "f", "t", "_", "c", "l", "i", "c", "k">>
  /\ sent = <<>> /\ ~result

\* C6: the last-fire time differs from its value before the dispatch exactly
\* when the dispatch returned fired.
C6_FireTimeIffFired ==
  AfterDispatch =>
    /\ (last_action_time # call.last_before) <=> result
    /\ result => last_action_time = now

\* C6 witness: a send in which a primitive raised part-way; not fired and the
\* last-fire time is kept.
C6_Witness ==
  /\ Executed /\ call.raised /\ sent # <<>>
  /\ ~result
  /\ last_action_time = call.last_before

\* C7: the cooldown is at least 0.1 s in every state; it starts at 0.5 s and
\* set_cooldown(d) stores d when d >= 0.1 s and 0.1 s otherwise.
C7_CooldownFloor ==
  /\ action_cooldown >= CooldownFloor
  /\ call.op = "init" => action_cooldown = DefaultCooldown
  /\ call.op = "set_cooldown" =>
       action_cooldown = (IF call.seconds >= CooldownFloor
                          THEN call.seconds ELSE CooldownFloor)

\* C7 witness: set_cooldown of a negative duration stored the floor.
C7_Witness ==
  /\ call.op = "set_cooldown"
  /\ call.seconds < 0
  /\ action_cooldown = CooldownFloor

\* the key a name resolves to according to the specification: the named key
\* of the trimmed, lower-cased name, else the single character left after
\* trimming, else nothing
SpecifiedKey(name) ==
  LET trimmed == Strip(name)
  IN IF InTable(SPECIAL_KEYS, Lower(trimmed))
     THEN KeyRef(Lookup(SPECIAL_KEYS, Lower(trimmed)))
     ELSE IF Len(trimmed) = 1 THEN CharRef(trimmed[1]) ELSE None

\* C8: a Key action dispatched with the gate open presses and releases the
\* key its name resolves to after trimming and lower-casing (table first,
\* then a single character), and sends nothing and is not-fired when the
\* name does not resolve.
C8_KeyResolution ==
  (Executed /\ GateOpen /\ ~call.raised /\ call.action_type = "key")
    => LET key == SpecifiedKey(call.action_value)
       IN IF key = None
          THEN sent = <<>> /\ ~result
          ELSE sent = <<Press(key), Release(key)>> /\ result

\* C9: a mouse action whose value names a click (it contains "click")
\* clicks once and fires: the right or middle button for right_click and
\* middle_click, the left button for left_click and for every name that is
\* not in the button table.
C9_ClickDefaultsToLeft ==
  (Executed /\ GateOpen /\ ~call.raised /\ call.action_type = "mouse"
     /\ Contains(call.action_value, <<"c", "l", "i", "c", "k">>))
    => LET btn == IF call.action_value = <<"r", "i", "g", "h", "t", "_", "c", "l", "i", "c", "k">> THEN "right"
                  ELSE IF call.action_value = <<"m", "i", "d", "d", "l", "e", "_", "c", "l", "i", "c", "k">> THEN "middle"
                  ELSE "left"
       IN /\ result
          /\ sent = <<Click(ButtonRef(btn), 1)>>
          /\ last_action_time = now

\* C9 witness: double_click, which is not in the button table, clicked the
\* left button and fired.
C9_Witness ==
  /\ Executed /\ result
  /\ call.action_type = "mouse"
  /\ call.action_value = <<"d", "o", "u", "b", "l", "e", "_", "c", "l", "i", "c", "k">>
  /\ sent = <<Click(ButtonRef("left"), 1)>>

TicksPerSecond == 10
\* seconds the clock may advance while the registry is used
MaxElapsedSeconds == 1

\* points of one hand (landmarks 0..20)
NumLandmarks == 21

\* a Python tuple and a Python list / JSON array
PyTuple(items) == [py |-> "tuple", items |-> items]
PyList(items) == [py |-> "list", items |-> items]

\* dict operations: d.get(k, default), d[k] = v, del d[k]
Get(d, k, default) == IF k \in DOMAIN d THEN d[k] ELSE default
Put(d, k, v) == [x \in DOMAIN d \cup {k} |-> IF x = k THEN v ELSE d[x]]
Del(d, k) == [x \in DOMAIN d \ {k} |-> d[x]]

\* list(d.values()); the entries of a dict the manager builds have distinct
\* ids, so the order of the list does not show after a load
RECURSIVE ValuesOver(_, _)
ValuesOver(d, keys) ==
  IF keys = {} THEN <<>>
  ELSE LET k == CHOOSE x \in keys : TRUE
       IN <<d[k]>> \o ValuesOver(d, keys \ {k})
Values(d) == ValuesOver(d, DOMAIN d)

\* keys and defaults of the settings read by load() and by the properties
\* camera_source, detection_confidence, tracking_confidence (in tenths), theme
SettingKeys ==
  {"camera_source", "detection_confidence", "tracking_confidence", "theme"}
SettingDefaults ==
  [camera_source |-> 0, detection_confidence |-> 7,
   tracking_confidence |-> 5, theme |-> "dark"]

\* the four settings as the property getters return them
SettingsView(s) == [k \in SettingKeys |-> Get(s, k, SettingDefaults[k])]

\* to_dict that leaves the enabled flag out
to_dict_without_enabled(m) ==
  [id |-> m.id, name |-> m.name, action_type |-> m.action_type,
   action_value |-> m.action_value]

\* GestureMapping.to_dict (dataclasses.asdict)
to_dict(m) ==
  [id |-> m.id, name |-> m.name, action_type |-> m.action_type,
   action_value |-> m.action_value, enabled |-> m.enabled]

\* GestureMapping.from_dict: cls(**data) raises TypeError on a missing
\* required field or an unknown field; enabled defaults to True
FromDictRaises(data) ==
  ~ /\ {"id", "name", "action_type", "action_value"} \subseteq DOMAIN data
    /\ DOMAIN data \subseteq
         {"id", "name", "action_type", "action_value", "enabled"}
from_dict(data) ==
  GestureMapping(data.id, data.name, data.action_type, data.action_value,
                 Get(data, "enabled", TRUE))

\* the loop of load() over data['gesture_mappings']
RECURSIVE LoadMappings(_, _)
LoadMappings(entries, acc) ==
  IF entries = <<>> THEN acc
  ELSE LET mapping == from_dict(Head(entries))
       IN LoadMappings(Tail(entries), Put(acc, mapping.id, mapping))

\* the loop of load() over data['custom_gestures_data']
LoadTemplates(raw) ==
  [gid \in DOMAIN raw |->
     [i \in 1..Len(raw[gid]) |-> PyTuple(raw[gid][i].items)]]

\* json.dump of _custom_gestures_data: tuples are written as arrays
DumpTemplates(templates) ==
  [gid \in DOMAIN templates |->
     [i \in 1..Len(templates[gid]) |-> PyList(templates[gid][i].items)]]

\* what a call of load() leaves in the manager, and its return value
Loaded(ok, s, templates, table) ==
  [ok |-> ok, settings |-> s, custom_gestures_data |-> templates,
   mappings |-> table]

\* load whose fallback leaves the table empty
load_without_defaults(doc, s) ==
  IF doc.kind = "object"
  THEN LET data == doc.data
           loaded_settings ==
             [k \in SettingKeys |-> Get(data, k, SettingDefaults[k])]
           entries == Get(data, "gesture_mappings", <<>>)
       IN IF \E i \in 1..Len(entries) : FromDictRaises(entries[i])
          THEN Loaded(FALSE, loaded_settings, EmptyDict, EmptyDict)
          ELSE Loaded(TRUE, loaded_settings,
                      LoadTemplates(Get(data, "custom_gestures_data", EmptyDict)),
                      LoadMappings(entries, EmptyDict))
  ELSE Loaded(FALSE, s, EmptyDict, EmptyDict)

\* GestureMappingManager.load, on the file doc, s being _settings before
load(doc, s) ==
  IF doc.kind = "object"
  THEN LET data == doc.data
           loaded_settings ==
             [k \in SettingKeys |-> Get(data, k, SettingDefaults[k])]
           entries == Get(data, "gesture_mappings", <<>>)
       IN IF \E i \in 1..Len(entries) : FromDictRaises(entries[i])
          THEN Loaded(FALSE, loaded_settings, EmptyDict,
                      create_default_mappings)
          ELSE Loaded(TRUE, loaded_settings,
                      LoadTemplates(Get(data, "custom_gestures_data", EmptyDict)),
                      LoadMappings(entries, EmptyDict))
  ELSE Loaded(FALSE, s, EmptyDict, create_default_mappings)

\* the dict save() hands to json.dump
SavedData(s, templates, table) ==
  [k \in DOMAIN s \cup {"custom_gestures_data", "gesture_mappings"} |->
     IF k = "custom_gestures_data" THEN DumpTemplates(templates)
     ELSE IF k = "gesture_mappings"
          THEN [i \in 1..Len(Values(table)) |-> to_dict(Values(table)[i])]
          ELSE s[k]]

\* how a save can end: written, or refused before the file is opened (mkdir
\* or open raises and save() returns False)
SaveOutcomes == {"ok", "refused"}

\* GestureMappingManager.save: the file afterwards
save(doc, s, templates, table, outcome) ==
  IF outcome = "ok"
  THEN [kind |-> "object", data |-> SavedData(s, templates, table)]
  ELSE doc

\* the id add_custom_gesture generates at clock reading t
custom_id(t) == "custom_" \o ToString(t \div TicksPerSecond)

\* add_custom_gesture that replaces the table by the new mapping
add_custom_gesture_replacing(name, landmarks, t) ==
  [gesture_id |-> custom_id(t),
   custom_gestures_data |-> Put(custom_gestures_data, custom_id(t), landmarks),
   mappings |-> Put(EmptyDict, custom_id(t),
                    GestureMapping(custom_id(t), name, "key", <<>>, TRUE))]

\* GestureMappingManager.add_custom_gesture: templates and table afterwards
add_custom_gesture(name, landmarks, t) ==
  [gesture_id |-> custom_id(t),
   custom_gestures_data |-> Put(custom_gestures_data, custom_id(t), landmarks),
   mappings |-> Put(mappings, custom_id(t),
                    GestureMapping(custom_id(t), name, "key", <<>>, TRUE))]

\* delete_custom_gesture that removes the template only
delete_custom_gesture_keeping_mapping(gesture_id) ==
  IF gesture_id \in DOMAIN custom_gestures_data
  THEN [ok |-> TRUE, saves |-> TRUE,
        custom_gestures_data |-> Del(custom_gestures_data, gesture_id),
        mappings |-> mappings]
  ELSE [ok |-> FALSE, saves |-> FALSE,
        custom_gestures_data |-> custom_gestures_data,
        mappings |-> mappings]

\* GestureMappingManager.delete_custom_gesture
delete_custom_gesture(gesture_id) ==
  IF gesture_id \in DOMAIN custom_gestures_data
  THEN [ok |-> TRUE, saves |-> TRUE,
        custom_gestures_data |-> Del(custom_gestures_data, gesture_id),
        mappings |-> IF gesture_id \in DOMAIN mappings
                     THEN Del(mappings, gesture_id) ELSE mappings]
  ELSE [ok |-> FALSE, saves |-> FALSE,
        custom_gestures_data |-> custom_gestures_data,
        mappings |-> mappings]

(* --------------------------- store inputs ------------------------------- *)

\* a captured hand: NumLandmarks points (x, y, z), coordinates in 1/1000
Frame(k) == [i \in 1..NumLandmarks |-> PyTuple(<<k * i, k + i, k>>)]
FrameInputs == {Frame(1)}
NameInputs == {"Peace"}

RightClick == <<"r", "i", "g", "h", "t", "_", "c", "l", "i", "c", "k">>

\* the id generated during the first second of the run
FirstCustomId == custom_id(StartTime)
\* an id nothing is ever stored under
UnknownId == "custom_0"
\* ids given to delete_custom_gesture, update_mapping and set_enabled
DeleteIdInputs == {"fist", FirstCustomId, UnknownId}
UpdateIdInputs == {FirstCustomId, UnknownId}
EnableIdInputs == {"fist", UnknownId}
\* outcome of the save() inside reset; a refused write is followed in
\* add_custom_gesture, delete_custom_gesture and Save
HandlerSaveOutcomes == {"ok"}

\* files found at config_path when the manager is constructed
GarbageDocument == [kind |-> "garbage"]
EmptyObjectDocument == [kind |-> "object", data |-> EmptyDict]
MalformedEntryDocument ==
  [kind |-> "object",
   data |-> [theme |-> "light",
             custom_gestures_data |-> [custom_0 |-> DumpTemplates([g \in {"x"} |-> Frame(1)])["x"]],
             gesture_mappings |->
               << to_dict(GestureMapping("victory", "V", "key", <<"v">>, FALSE)),
                  [name |-> "NoId", action_type |-> "key",
                   action_value |-> <<"a">>, enabled |-> TRUE] >>]]
DocumentInputs ==
  {MissingDocument, GarbageDocument, EmptyObjectDocument,
   MalformedEntryDocument}

(* ------------------------ store state machine --------------------------- *)

\* the record kept in `call` by the store operations
StoreCall(op, gesture_id, name, landmarks, action, enabled, saved) ==
  [op |-> op, gesture_id |-> gesture_id, name |-> name,
   landmarks |-> landmarks, action |-> action, enabled |-> enabled,
   saved |-> saved]

NoAction == <<"", <<>>>>

\* GestureMappingManager.__init__ on one of the files: load()
InitStore ==
  /\ now = StartTime
  /\ last_action_time = 0
  /\ action_cooldown = DefaultCooldown
  /\ sent = <<>>
  /\ document \in DocumentInputs
  /\ \E l \in {load(document, EmptyDict)} :
       /\ settings = l.settings
       /\ custom_gestures_data = l.custom_gestures_data
       /\ mappings = l.mappings
       /\ result = l.ok
  /\ call = StoreCall("load", "", "", <<>>, NoAction, FALSE, "none")
  /\ NoDetector
  /\ NotStarted

\* a second passes
ClockSecond ==
  /\ now + TicksPerSecond <= StartTime + MaxElapsedSeconds * TicksPerSecond
  /\ now' = now + TicksPerSecond
  /\ call' = StoreCall("tick", "", "", <<>>, NoAction, FALSE, "none")
  /\ result' = FALSE
  /\ UNCHANGED <<last_action_time, action_cooldown, sent, mappings>>
  /\ UNCHANGED storeVars
  /\ UNCHANGED <<detectorVars, threadVars, uiVars>>

\* GestureMappingManager.add_custom_gesture
AddCustomGesture ==
  \E name \in NameInputs, landmarks \in FrameInputs, outcome \in SaveOutcomes :
    \E a \in {add_custom_gesture(name, landmarks, now)} :
      /\ custom_gestures_data' = a.custom_gestures_data
      /\ mappings' = a.mappings
      /\ document' = save(document, settings, a.custom_gestures_data,
                          a.mappings, outcome)
      /\ call' = StoreCall("add_custom_gesture", a.gesture_id, name, landmarks,
                           NoAction, FALSE, outcome)
      /\ result' = TRUE
      /\ UNCHANGED <<now, last_action_time, action_cooldown, sent, settings>>
      /\ UNCHANGED <<detectorVars, threadVars, uiVars>>

\* GestureMappingManager.delete_custom_gesture
DeleteCustomGesture ==
  \E gesture_id \in DeleteIdInputs, outcome \in SaveOutcomes :
    \E d \in {delete_custom_gesture(gesture_id)} :
      /\ ~d.saves => outcome = "ok"
      /\ custom_gestures_data' = d.custom_gestures_data
      /\ mappings' = d.mappings
      /\ document' = IF d.saves
                     THEN save(document, settings, d.custom_gestures_data,
                               d.mappings, outcome)
                     ELSE document
      /\ call' = StoreCall("delete_custom_gesture", gesture_id, "", <<>>,
                           NoAction, FALSE, IF d.saves THEN outcome ELSE "none")
      /\ result' = d.ok
      /\ UNCHANGED <<now, last_action_time, action_cooldown, sent, settings>>
      /\ UNCHANGED <<detectorVars, threadVars, uiVars>>

\* GestureMappingManager.update_mapping on the store's ids
StoreUpdateMapping ==
  \E gesture_id \in UpdateIdInputs, enabled \in {TRUE} :
    /\ mappings' = update_mapping(gesture_id, "mouse", RightClick, enabled)
    /\ call' = StoreCall("update_mapping", gesture_id, "", <<>>,
                         <<"mouse", RightClick>>, enabled, "none")
    /\ result' = (gesture_id \in DOMAIN mappings)
    /\ UNCHANGED <<now, last_action_time, action_cooldown, sent>>
    /\ UNCHANGED storeVars
    /\ UNCHANGED <<detectorVars, threadVars, uiVars>>

\* GestureMappingManager.set_enabled on the store's ids
StoreSetEnabled ==
  \E gesture_id \in EnableIdInputs, enabled \in BOOLEAN :
    /\ mappings' = set_enabled(gesture_id, enabled)
    /\ call' = StoreCall("set_enabled", gesture_id, "", <<>>, NoAction,
                         enabled, "none")
    /\ result' = (gesture_id \in DOMAIN mappings)
    /\ UNCHANGED <<now, last_action_time, action_cooldown, sent>>
    /\ UNCHANGED storeVars
    /\ UNCHANGED <<detectorVars, threadVars, uiVars>>

\* reset_defaults that also empties the template store
ResetDefaults_clearing_templates ==
  \E outcome \in HandlerSaveOutcomes :
    /\ mappings' = create_default_mappings
    /\ custom_gestures_data' = EmptyDict
    /\ document' = save(document, settings, EmptyDict,
                        create_default_mappings, outcome)
    /\ call' = StoreCall("reset_defaults", "", "", <<>>, NoAction, FALSE, outcome)
    /\ result' = FALSE
    /\ UNCHANGED <<now, last_action_time, action_cooldown, sent, settings>>
    /\ UNCHANGED <<detectorVars, threadVars, uiVars>>

\* GestureConfigPanel.reset_defaults, confirmed: _create_default_mappings()
\* and save()
ResetDefaults ==
  \E outcome \in HandlerSaveOutcomes :
    /\ mappings' = create_default_mappings
    /\ document' = save(document, settings, custom_gestures_data,
                        create_default_mappings, outcome)
    /\ call' = StoreCall("reset_defaults", "", "", <<>>, NoAction, FALSE, outcome)
    /\ result' = FALSE
    /\ UNCHANGED <<now, last_action_time, action_cooldown, sent,
                   custom_gestures_data, settings>>
    /\ UNCHANGED <<detectorVars, threadVars, uiVars>>

\* save that reloads the registry from the file when the write is refused
Save_reloading ==
  \E outcome \in SaveOutcomes :
    \E l \in {load(document, settings)} :
      /\ document' = save(document, settings, custom_gestures_data, mappings,
                          outcome)
      /\ call' = StoreCall("save", "", "", <<>>, NoAction, FALSE, outcome)
      /\ result' = (outcome = "ok")
      /\ mappings' = IF outcome = "ok" THEN mappings ELSE l.mappings
      /\ custom_gestures_data' = IF outcome = "ok" THEN custom_gestures_data
                                 ELSE l.custom_gestures_data
      /\ UNCHANGED <<now, last_action_time, action_cooldown, sent, settings>>
      /\ UNCHANGED <<detectorVars, threadVars, uiVars>>

\* GestureMappingManager.save
Save ==
  \E outcome \in SaveOutcomes :
    /\ document' = save(document, settings, custom_gestures_data, mappings,
                        outcome)
    /\ call' = StoreCall("save", "", "", <<>>, NoAction, FALSE, outcome)
    /\ result' = (outcome = "ok")
    /\ UNCHANGED <<now, last_action_time, action_cooldown, sent, mappings,
                   custom_gestures_data, settings>>
    /\ UNCHANGED <<detectorVars, threadVars, uiVars>>

\* GestureMappingManager.load (the application starts again on the file)
Load ==
  \E l \in {load(document, settings)} :
    /\ settings' = l.settings
    /\ custom_gestures_data' = l.custom_gestures_data
    /\ mappings' = l.mappings
    /\ call' = StoreCall("load", "", "", <<>>, NoAction, FALSE, "none")
    /\ result' = l.ok
    /\ UNCHANGED <<now, last_action_time, action_cooldown, sent, document>>
    /\ UNCHANGED <<detectorVars, threadVars, uiVars>>

NextStore ==
  \/ ClockSecond \/ AddCustomGesture \/ DeleteCustomGesture
  \/ StoreUpdateMapping \/ StoreSetEnabled \/ ResetDefaults
  \/ Save \/ Load

SpecStore == InitStore /\ [][NextStore]_vars

(* --------------------------- store properties --------------------------- *)

TypeOKStore ==
  /\ DOMAIN settings \subseteq SettingKeys
  /\ \A g \in DOMAIN mappings : mappings[g].id = g
  /\ \A g \in DOMAIN custom_gestures_data :
       Len(custom_gestures_data[g]) = NumLandmarks
  /\ document.kind \in {"missing", "garbage", "object"}
  /\ call.saved \in SaveOutcomes \cup {"none"}
  /\ result \in BOOLEAN

\* the dicts d and e agree on every key other than g
SameElsewhere(d, e, g) ==
  \A h \in (DOMAIN d \cup DOMAIN e) \ {g} :
    h \in DOMAIN d /\ h \in DOMAIN e /\ d[h] = e[h]

\* the table holds the five documented defaults, all enabled
IsDefaultBuiltins(table) ==
  /\ PredefinedIds \subseteq DOMAIN table
  /\ \A g \in PredefinedIds : table[g].id = g /\ table[g].enabled
  /\ table["fist"].action_type = "key"
  /\ table["fist"].action_value = <<"s", "p", "a", "c", "e">>
  /\ table["open_palm"].action_type = "key"
  /\ table["open_palm"].action_value = <<"e", "s", "c", "a", "p", "e">>
  /\ table["thumbs_up"].action_type = "key"
  /\ table["thumbs_up"].action_value = <<"e", "n", "t", "e", "r">>
  /\ table["victory"].action_type = "key"
  /\ table["victory"].action_value = <<"v">>
  /\ table["point_up"].action_type = "mouse"
  /\ table["point_up"].action_value =
       <<"l", "e", "f", "t", "_", "c", "l", "i", "c", "k">>

\* the file cannot be parsed, or one of its mapping entries is malformed
Corrupt(doc) ==
  \/ doc.kind = "garbage"
  \/ /\ doc.kind = "object"
     /\ "gesture_mappings" \in DOMAIN doc.data
     /\ \E i \in 1..Len(doc.data.gesture_mappings) :
          FromDictRaises(doc.data.gesture_mappings[i])

\* C11: each of the five built-in gesture ids has a mapping in every
\* reachable state of the registry, whatever document it was loaded from and
\* whatever operations followed.
C11_BuiltinsAlwaysMapped == \A g \in PredefinedIds : g \in DOMAIN mappings

\* C12: a gesture id has a stored custom template if and only if it has a
\* non-built-in mapping, in every state reached by add, delete, update,
\* set_enabled and reset.
C12_TemplateIffCustomMapping ==
  \A g \in DOMAIN custom_gestures_data \cup DOMAIN mappings :
    g \in DOMAIN custom_gestures_data
      <=> (g \in DOMAIN mappings /\ g \notin PredefinedIds)

\* C13: the id add_custom_gesture returns is distinct from every id already
\* in the mapping table or the template store, so a creation never
\* overwrites an existing template or mapping.
C13_FreshId ==
  [][call'.op = "add_custom_gesture"
       => call'.gesture_id \notin
            DOMAIN mappings \cup DOMAIN custom_gestures_data]_vars

\* C14: after add_custom_gesture(name, landmarks) returns g, the template
\* store holds the landmarks under g, the table holds {g, name, key, "",
\* enabled} under g, a save was attempted (and, when it was accepted, the file
\* holds the new registry), and the entries of all other ids are unchanged.
C14_AddStoresTemplateAndMapping ==
  [][call'.op = "add_custom_gesture"
       => /\ call'.gesture_id \in DOMAIN custom_gestures_data'
          /\ custom_gestures_data'[call'.gesture_id] = call'.landmarks
          /\ call'.gesture_id \in DOMAIN mappings'
          /\ mappings'[call'.gesture_id] =
               [id |-> call'.gesture_id, name |-> call'.name,
                action_type |-> "key", action_value |-> <<>>,
                enabled |-> TRUE]
          /\ call'.saved \in SaveOutcomes
          /\ call'.saved = "ok"
               => /\ document'.kind = "object"
                  /\ document'.data =
                       SavedData(settings', custom_gestures_data', mappings')
          /\ SameElsewhere(mappings, mappings', call'.gesture_id)
          /\ SameElsewhere(custom_gestures_data, custom_gestures_data',
                           call'.gesture_id)]_vars

\* a gesture was just added next to an older custom gesture
C14_Witness ==
  /\ call.op = "add_custom_gesture"
  /\ call.saved = "ok"
  /\ Cardinality(DOMAIN custom_gestures_data) = 2
  /\ "fist" \in DOMAIN mappings /\ ~mappings["fist"].enabled

\* C15: delete_custom_gesture on an existing custom gesture returns true,
\* removes its template and its mapping, and leaves the entries of the other
\* ids unchanged.
C15_DeleteRemovesBoth ==
  [][(/\ call'.op = "delete_custom_gesture"
      /\ call'.gesture_id \in DOMAIN custom_gestures_data
      /\ call'.gesture_id \notin PredefinedIds)
       => /\ result' = TRUE
          /\ call'.gesture_id \notin DOMAIN custom_gestures_data'
          /\ call'.gesture_id \notin DOMAIN mappings'
          /\ SameElsewhere(mappings, mappings', call'.gesture_id)
          /\ SameElsewhere(custom_gestures_data, custom_gestures_data',
                           call'.gesture_id)]_vars

\* the first custom gesture was just deleted, a later one is still there
C15_Witness ==
  /\ call.op = "delete_custom_gesture"
  /\ result
  /\ call.gesture_id = FirstCustomId
  /\ FirstCustomId \notin DOMAIN custom_gestures_data \cup DOMAIN mappings
  /\ \E g \in DOMAIN custom_gestures_data : g \in DOMAIN mappings

C17_SetEnabledFrame ==
  [][(call'.op = "set_enabled" /\ call'.gesture_id \in DOMAIN mappings)
       => /\ result' = TRUE
          /\ DOMAIN mappings' = DOMAIN mappings
          /\ mappings'[call'.gesture_id].enabled = call'.enabled
          /\ mappings'[call'.gesture_id].id = mappings[call'.gesture_id].id
          /\ mappings'[call'.gesture_id].name = mappings[call'.gesture_id].name
          /\ mappings'[call'.gesture_id].action_type =
               mappings[call'.gesture_id].action_type
          /\ mappings'[call'.gesture_id].action_value =
               mappings[call'.gesture_id].action_value
          /\ SameElsewhere(mappings, mappings', call'.gesture_id)
          /\ custom_gestures_data' = custom_gestures_data]_vars

\* a built-in was just disabled while a custom gesture with an edited action
\* is in the table
C17_Witness ==
  /\ call.op = "set_enabled"
  /\ result
  /\ ~call.enabled
  /\ ~mappings[call.gesture_id].enabled
  /\ \E g \in DOMAIN mappings \ PredefinedIds :
       mappings[g].action_type = "mouse" /\ mappings[g].enabled

\* C18: after reset-to-default the built-in table is fist -> key space,
\* open_palm -> key escape, thumbs_up -> key enter, victory -> key v,
\* point_up -> mouse left_click, all enabled, and the stored custom templates
\* are the ones stored before.
C18_ResetRestoresDefaults ==
  [][call'.op = "reset_defaults"
       => /\ IsDefaultBuiltins(mappings')
          /\ custom_gestures_data' = custom_gestures_data]_vars

\* a reset just ran on a registry that holds a custom template
C18_Witness ==
  /\ call.op = "reset_defaults"
  /\ DOMAIN custom_gestures_data # {}
  /\ IsDefaultBuiltins(mappings)

\* C19: load() on a missing or corrupt file returns false and leaves exactly
\* the five default built-in mappings and no custom template.
C19_LoadFallback ==
  (call.op = "load" /\ (document.kind = "missing" \/ Corrupt(document)))
    => /\ result = FALSE
       /\ DOMAIN mappings = PredefinedIds
       /\ IsDefaultBuiltins(mappings)
       /\ custom_gestures_data = EmptyDict

\* a load after construction found a file with a malformed entry
C19_Witness ==
  /\ call.op = "load"
  /\ now > StartTime
  /\ document = MalformedEntryDocument
  /\ ~result
  /\ settings # EmptyDict

\* C20: saving a registry and loading the file that was written gives back
\* the same mappings, the same custom templates and the same settings.
C20_SaveLoadRoundTrip ==
  \E l \in {load(save(document, settings, custom_gestures_data, mappings,
                      "ok"), settings)} :
    /\ l.ok
    /\ l.mappings = mappings
    /\ l.custom_gestures_data = custom_gestures_data
    /\ \A g \in DOMAIN l.custom_gestures_data :
         Len(l.custom_gestures_data[g]) = NumLandmarks
    /\ SettingsView(l.settings) = SettingsView(settings)

\* a load just read the file a save wrote from a registry with a custom
\* gesture and a disabled built-in
C20_Witness ==
  /\ call.op = "load"
  /\ result
  /\ document = save(document, settings, custom_gestures_data, mappings, "ok")
  /\ DOMAIN custom_gestures_data # {}
  /\ "fist" \in DOMAIN mappings /\ ~mappings["fist"].enabled

\* C21: when the write is refused, save() returns false, nothing is written
\* again, and mappings, templates and settings stay as they are in memory;
\* when the refused save is the one issued by add_custom_gesture or
\* delete_custom_gesture, the addition or deletion made in memory stays.
C21_RefusedSaveKeepsMemory ==
  [][call'.saved = "refused"
       => /\ call'.op \in {"save", "add_custom_gesture", "delete_custom_gesture"}
          /\ document' = document
          /\ settings' = settings
          /\ call'.op = "save"
               => /\ result' = FALSE
                  /\ mappings' = mappings
                  /\ custom_gestures_data' = custom_gestures_data
          /\ call'.op = "add_custom_gesture"
               => /\ call'.gesture_id \in DOMAIN mappings'
                  /\ call'.gesture_id \in DOMAIN custom_gestures_data'
                  /\ SameElsewhere(mappings, mappings', call'.gesture_id)
                  /\ SameElsewhere(custom_gestures_data, custom_gestures_data',
                                   call'.gesture_id)
          /\ call'.op = "delete_custom_gesture"
               => /\ result' = TRUE
                  /\ call'.gesture_id \notin DOMAIN mappings'
                  /\ call'.gesture_id \notin DOMAIN custom_gestures_data'
                  /\ SameElsewhere(mappings, mappings', call'.gesture_id)
                  /\ SameElsewhere(custom_gestures_data, custom_gestures_data',
                                   call'.gesture_id)]_vars

\* a save was just refused while the registry holds a custom gesture the
\* file does not have
C21_Witness ==
  /\ call.op = "save"
  /\ call.saved = "refused"
  /\ ~result
  /\ DOMAIN custom_gestures_data # {}
  /\ document # save(document, settings, custom_gestures_data, mappings, "ok")

(* ------------------ gesture_detector.py: the classifier ------------------ *)

\* Coordinates and distances are fixed-point numbers: Scale units make 1.0,
\* and every floating-point operation of the code (subtraction, division,
\* square root, mean) is the exact operation rounded to the nearest unit, as
\* an IEEE operation is rounded to the nearest representable number.
Scale == 1000

\* float('inf')
Infinity == 1000000000

\* the landmark indices of the code (0-based; the model's sequences are
\* 1-based, so landmark i is element i + 1)
THUMB_MCP == 2
THUMB_IP == 3
THUMB_TIP == 4
INDEX_PIP == 6
INDEX_TIP == 8
MIDDLE_PIP == 10
MIDDLE_TIP == 12
RING_PIP == 14
RING_TIP == 16
PINKY_PIP == 18
PINKY_TIP == 20

Abs(x) == IF x >= 0 THEN x ELSE -x

\* a / b rounded to the nearest integer (b > 0)
RoundDiv(a, b) ==
  IF a >= 0 THEN (2 * a + b) \div (2 * b)
  ELSE -((2 * (-a) + b) \div (2 * b))

\* the square root of n rounded to the nearest integer
RECURSIVE SqrtIter(_, _)
SqrtIter(n, x) ==
  LET y == (x + n \div x) \div 2
  IN IF y >= x THEN x ELSE SqrtIter(n, y)
FloorSqrt(n) == IF n = 0 THEN 0 ELSE SqrtIter(n, n)
RoundUp(n, r) == IF n - r * r > r THEN r + 1 ELSE r
RoundSqrt(n) == RoundUp(n, FloorSqrt(n))

\* np.linalg.norm of one row (x, y, z)
Norm(p) == RoundSqrt(p[1] * p[1] + p[2] * p[2] + p[3] * p[3])

\* the largest element of s from index i on, or acc if that is larger
RECURSIVE MaxOver(_, _, _)
MaxOver(s, i, acc) ==
  IF i > Len(s) THEN acc
  ELSE MaxOver(s, i + 1, IF s[i] > acc THEN s[i] ELSE acc)
RECURSIVE SumOver(_, _)
SumOver(s, i) == IF i > Len(s) THEN 0 ELSE s[i] + SumOver(s, i + 1)

\* the points left where they are
Translate_identity(pts) ==
  [i \in 1..Len(pts) |-> pts[i].items]

\* points - wrist
Translate(pts) ==
  [i \in 1..Len(pts) |->
     <<pts[i].items[1] - pts[1].items[1],
       pts[i].items[2] - pts[1].items[2],
       pts[i].items[3] - pts[1].items[3]>>]

\* np.max(np.linalg.norm(points, axis=1))
MaxDist(points) ==
  MaxOver([i \in 1..Len(points) |-> Norm(points[i])], 1, 0)

\* points / max_dist when max_dist > 0
Rescale(points, max_dist) ==
  [i \in 1..Len(points) |->
     PyTuple(IF max_dist > 0
             THEN <<RoundDiv(points[i][1] * Scale, max_dist),
                    RoundDiv(points[i][2] * Scale, max_dist),
                    RoundDiv(points[i][3] * Scale, max_dist)>>
             ELSE points[i])]

\* GestureDetector._normalize_landmarks (of at least one point); points and
\* max_dist are each computed once
normalize_landmarks(pts) ==
  CHOOSE out \in
    UNION { {Rescale(points, max_dist) : max_dist \in {MaxDist(points)}} :
            points \in {Translate(pts)} } : TRUE

\* _calculate_distance over the points both sequences have
calculate_distance_prefix(lm1, lm2) ==
  RoundDiv(
    SumOver([i \in 1..(IF Len(lm1) < Len(lm2) THEN Len(lm1) ELSE Len(lm2)) |->
               Norm(<<lm1[i].items[1] - lm2[i].items[1],
                      lm1[i].items[2] - lm2[i].items[2],
                      lm1[i].items[3] - lm2[i].items[3]>>)], 1),
    IF Len(lm1) < Len(lm2) THEN Len(lm1) ELSE Len(lm2))

\* GestureDetector._calculate_distance
calculate_distance(lm1, lm2) ==
  IF Len(lm1) # Len(lm2) THEN Infinity
  ELSE RoundDiv(
         SumOver([i \in 1..Len(lm1) |->
                    Norm(<<lm1[i].items[1] - lm2[i].items[1],
                           lm1[i].items[2] - lm2[i].items[2],
                           lm1[i].items[3] - lm2[i].items[3]>>)], 1),
         Len(lm1))

\* GestureDetector._get_fingers_up: index, middle, ring, pinky
get_fingers_up(lm) ==
  << lm[INDEX_TIP + 1].items[2] < lm[INDEX_PIP + 1].items[2],
     lm[MIDDLE_TIP + 1].items[2] < lm[MIDDLE_PIP + 1].items[2],
     lm[RING_TIP + 1].items[2] < lm[RING_PIP + 1].items[2],
     lm[PINKY_TIP + 1].items[2] < lm[PINKY_PIP + 1].items[2] >>

\* GestureDetector._is_thumb_up: tip_to_ip > ip_to_mcp * 0.5
is_thumb_up(lm) ==
  2 * Abs(lm[THUMB_TIP + 1].items[1] - lm[THUMB_IP + 1].items[1])
    > Abs(lm[THUMB_IP + 1].items[1] - lm[THUMB_MCP + 1].items[1])

\* an entry of a template dict, in insertion order
Entry(gid, template) == [gid |-> gid, template |-> template]

\* d[gid] = template on an insertion-ordered dict
DictSet(entries, gid, template) ==
  IF \E i \in 1..Len(entries) : entries[i].gid = gid
  THEN [i \in 1..Len(entries) |->
          IF entries[i].gid = gid THEN Entry(gid, template) ELSE entries[i]]
  ELSE Append(entries, Entry(gid, template))

\* the loop of set_custom_templates: new_templates after it
RECURSIVE NormalizeAll(_, _)
NormalizeAll(templates, new_templates) ==
  IF templates = <<>> THEN new_templates
  ELSE NormalizeAll(Tail(templates),
                    DictSet(new_templates, Head(templates).gid,
                            normalize_landmarks(Head(templates).template)))

\* GestureDetector.set_custom_templates: the dict it installs
set_custom_templates(templates) == NormalizeAll(templates, <<>>)

\* the scan step with dist <= min_dist: the last of several equals wins
Closer_last_wins(best, gid, dist) ==
  CHOOSE b \in
    { IF d <= best.min_dist THEN [best_match_id |-> gid, min_dist |-> d]
      ELSE best : d \in {dist} } : TRUE

\* one iteration of the scan: if dist < min_dist, the entry becomes the best
Closer(best, gid, dist) ==
  CHOOSE b \in
    { IF d < best.min_dist THEN [best_match_id |-> gid, min_dist |-> d]
      ELSE best : d \in {dist} } : TRUE

\* the scan of _recognize_gesture from entry i on: best id and distance
RECURSIVE Scan(_, _, _, _)
Scan(normalized_current, entries, i, best) ==
  IF i > Len(entries) THEN best
  ELSE Scan(normalized_current, entries, i + 1,
            Closer(best, entries[i].gid,
                   calculate_distance(normalized_current,
                                      entries[i].template)))

\* best_match_id = None, min_dist = float('inf')
NoMatch == [best_match_id |-> "None", min_dist |-> Infinity]

\* a (GestureType, confidence, gesture_id) triple
Decision(gesture_type, confidence, gesture_id) ==
  [gesture_type |-> gesture_type, confidence |-> confidence,
   gesture_id |-> gesture_id]

\* 0.15 and 0.9 in units
MatchThreshold == (15 * Scale) \div 100
BuiltinConfidence == (9 * Scale) \div 10

\* the built-in rules with a fist rule that does not look at the thumb
predefined_gesture_fist_any_thumb(fingers_up, thumb_up) ==
  LET any == \E i \in 1..4 : fingers_up[i]
      all == \A i \in 1..4 : fingers_up[i]
  IN IF ~any THEN Decision("fist", BuiltinConfidence, "fist")
     ELSE IF all /\ thumb_up
          THEN Decision("open_palm", BuiltinConfidence, "open_palm")
     ELSE IF fingers_up[1] /\ fingers_up[2] /\ ~fingers_up[3] /\ ~fingers_up[4]
          THEN Decision("victory", BuiltinConfidence, "victory")
     ELSE IF fingers_up[1] /\ ~fingers_up[2] /\ ~fingers_up[3] /\ ~fingers_up[4]
          THEN Decision("point_up", BuiltinConfidence, "point_up")
     ELSE Decision("none", 0, "")

\* the built-in rules of _recognize_gesture, in the order of the code
predefined_gesture(fingers_up, thumb_up) ==
  LET any == \E i \in 1..4 : fingers_up[i]
      all == \A i \in 1..4 : fingers_up[i]
  IN IF ~any /\ ~thumb_up THEN Decision("fist", BuiltinConfidence, "fist")
     ELSE IF all /\ thumb_up
          THEN Decision("open_palm", BuiltinConfidence, "open_palm")
     ELSE IF thumb_up /\ ~any
          THEN Decision("thumbs_up", BuiltinConfidence, "thumbs_up")
     ELSE IF fingers_up[1] /\ fingers_up[2] /\ ~fingers_up[3] /\ ~fingers_up[4]
          THEN Decision("victory", BuiltinConfidence, "victory")
     ELSE IF fingers_up[1] /\ ~fingers_up[2] /\ ~fingers_up[3] /\ ~fingers_up[4]
          THEN Decision("point_up", BuiltinConfidence, "point_up")
     ELSE Decision("none", 0, "")

\* decide with min_dist <= 0.15
decide_inclusive(lm, best, enabled) ==
  IF best.best_match_id \notin {"None", ""} /\ best.min_dist <= MatchThreshold
  THEN Decision("custom", Scale - best.min_dist, best.best_match_id)
  ELSE IF enabled
       THEN predefined_gesture(get_fingers_up(lm), is_thumb_up(lm))
       ELSE Decision("none", 0, "")

\* decide that tries the built-in rules before the custom match
decide_heuristics_first(lm, best, enabled) ==
  IF enabled /\ predefined_gesture(get_fingers_up(lm), is_thumb_up(lm))
                 # Decision("none", 0, "")
  THEN predefined_gesture(get_fingers_up(lm), is_thumb_up(lm))
  ELSE IF best.best_match_id \notin {"None", ""}
          /\ best.min_dist < MatchThreshold
       THEN Decision("custom", Scale - best.min_dist, best.best_match_id)
       ELSE Decision("none", 0, "")

\* decide that reports the distance as the confidence
decide_raw_distance(lm, best, enabled) ==
  IF best.best_match_id \notin {"None", ""} /\ best.min_dist < MatchThreshold
  THEN Decision("custom", Scale + best.min_dist, best.best_match_id)
  ELSE IF enabled
       THEN predefined_gesture(get_fingers_up(lm), is_thumb_up(lm))
       ELSE Decision("none", 0, "")

\* what _recognize_gesture returns once the scan has ended with best
decide(lm, best, enabled) ==
  IF best.best_match_id \notin {"None", ""} /\ best.min_dist < MatchThreshold
  THEN Decision("custom", Scale - best.min_dist, best.best_match_id)
  ELSE IF enabled
       THEN predefined_gesture(get_fingers_up(lm), is_thumb_up(lm))
       ELSE Decision("none", 0, "")

\* GestureDetector._recognize_gesture
recognize_gesture(lm, entries, enabled) ==
  CHOOSE d \in
    UNION { {decide(lm, best, enabled) :
               best \in {Scan(normalized_current, entries, 1, NoMatch)}} :
            normalized_current \in {normalize_landmarks(lm)} } : TRUE

(* -------------------------- classifier inputs --------------------------- *)

\* landmark j (1-based) of a hand seen from the front: the fingers in f are
\* stretched upwards, the thumb sticks out when t; the pinky tip is raised
\* by lift
HandPoint(f, t, lift, j) ==
  IF j <= 5
  THEN << <<500, 800, 0>>, <<450, 750, 0>>, <<420, 700, 0>>, <<400, 650, 0>>,
          <<IF t THEN 370 ELSE 395, 600, 0>> >>[j]
  ELSE LET n == (j - 6) \div 4 + 1
           q == (j - 6) % 4
           y == IF q = 0 THEN 600
                ELSE IF q = 1 THEN 500
                ELSE IF q = 2 THEN (IF f[n] THEN 380 ELSE 560)
                ELSE (IF f[n] THEN 260 ELSE 620)
       IN <<400 + 50 * (n - 1),
            IF n = 4 /\ q = 3 THEN y - lift ELSE y,
            10 * q>>

\* the same hand k times as large and moved by (ox, oy)
Hand(f, t, k, ox, oy, lift) ==
  [j \in 1..NumLandmarks |->
     PyTuple(<<k * HandPoint(f, t, lift, j)[1] + ox,
               k * HandPoint(f, t, lift, j)[2] + oy,
               k * HandPoint(f, t, lift, j)[3]>>)]

Pose(f, t) == Hand(f, t, 1, 0, 0, 0)

\* all 32 combinations of the four finger states and the thumb state
PoseInputs == {Pose(f, t) : f \in [1..4 -> BOOLEAN], t \in BOOLEAN}

VictoryFingers == <<TRUE, TRUE, FALSE, FALSE>>
FistFingers == <<FALSE, FALSE, FALSE, FALSE>>
OpenFingers == <<TRUE, TRUE, TRUE, TRUE>>
ThreeFingers == <<FALSE, TRUE, TRUE, TRUE>>

\* frames given to the classifier: the 32 poses, a victory hand twice as
\* large and moved, two hands just inside and just outside the threshold of
\* the victory template, and a hand whose points all coincide
HandInputs ==
  PoseInputs \cup
  { Hand(VictoryFingers, FALSE, 2, 10, -20, 0),
    Hand(ThreeFingers, TRUE, 1, 0, 0, 23),
    Hand(ThreeFingers, TRUE, 1, 0, 0, 25),
    [j \in 1..NumLandmarks |-> PyTuple(<<5, 5, 5>>)] }

\* template dicts given to set_custom_templates, in insertion order
TemplateInputs ==
  { <<>>,
    << Entry("tpl1", Pose(VictoryFingers, FALSE)) >>,
    << Entry("tpl1", Pose(FistFingers, FALSE)),
       Entry("tpl2", Pose(OpenFingers, TRUE)) >>,
    << Entry("tpl1", Pose(VictoryFingers, TRUE)),
       Entry("tpl2", Pose(VictoryFingers, TRUE)) >>,
    << Entry("short", SubSeq(Pose(VictoryFingers, FALSE), 1, NumLandmarks - 1)),
       Entry("tpl2", Pose(OpenFingers, FALSE)) >> }

(* ----------------------- classifier state machine ----------------------- *)

\* the record kept in `call` by the detector operations
DetectorCall(op) == [op |-> op]

\* the identity given to a new dict object
NewObject(objs) ==
  CHOOSE id \in 1..(Cardinality(DOMAIN objs) + 1) :
    /\ id \notin DOMAIN objs
    /\ \A other \in 1..(id - 1) : other \in DOMAIN objs

\* the objects still referenced
Collect(objs, live) == [id \in DOMAIN objs \cap live |-> objs[id]]

\* everything outside the detector, as MainWindow.__init__ leaves it
OutsideDetector ==
  /\ now = StartTime
  /\ last_action_time = 0
  /\ action_cooldown = DefaultCooldown
  /\ mappings = create_default_mappings
  /\ sent = <<>>
  /\ result = FALSE
  /\ custom_gestures_data = EmptyDict
  /\ settings = EmptyDict
  /\ document = MissingDocument

outsideVars ==
  <<now, last_action_time, action_cooldown, mappings, sent, result,
    custom_gestures_data, settings, document>>

\* GestureDetector.__init__: an empty template dict, heuristics as given
InitClassifier ==
  /\ OutsideDetector
  /\ call = DetectorCall("init")
  /\ objects = [id \in {1} |-> <<>>]
  /\ custom_templates = 1
  /\ enable_predefined_gestures \in BOOLEAN
  /\ current_landmarks = <<>>
  /\ decision = Decision("none", 0, "")
  /\ worker = Idle
  /\ main = Idle
  /\ NotStarted

\* GestureDetector.set_custom_templates, run to its end
SetCustomTemplates ==
  \E templates \in TemplateInputs :
    \E id \in {NewObject(objects)} :
      /\ objects' = [o \in {id} |-> set_custom_templates(templates)]
      /\ custom_templates' = id
      /\ call' = DetectorCall("set_custom_templates")
      /\ current_landmarks' = <<>>
      /\ decision' = Decision("none", 0, "")
      /\ UNCHANGED enable_predefined_gestures
      /\ UNCHANGED <<outsideVars, threadVars, uiVars>>

\* GestureDetector._recognize_gesture, run to its end
RecognizeGesture ==
  \E lm \in HandInputs :
    /\ current_landmarks' = lm
    /\ decision' = recognize_gesture(lm, objects[custom_templates],
                                     enable_predefined_gestures)
    /\ call' = DetectorCall("recognize_gesture")
    /\ UNCHANGED <<objects, custom_templates, enable_predefined_gestures>>
    /\ UNCHANGED <<outsideVars, threadVars, uiVars>>

NextClassifier == SetCustomTemplates \/ RecognizeGesture

SpecClassifier == InitClassifier /\ [][NextClassifier]_vars

(* ------------------------ classifier properties ------------------------- *)

TypeOKClassifier ==
  /\ custom_templates \in DOMAIN objects
  /\ enable_predefined_gestures \in BOOLEAN
  /\ decision.gesture_type \in
       {"none", "fist", "open_palm", "thumbs_up", "victory", "point_up",
        "custom"}
  /\ current_landmarks # <<>> => Len(current_landmarks) = NumLandmarks

\* the state right after a frame was classified
AfterRecognize == call.op = "recognize_gesture"

\* the installed templates; the normalized frame; its distance to each
Installed == objects[custom_templates]
NormalizedCurrent == {normalize_landmarks(current_landmarks)}
Distances(nc) ==
  {[i \in 1..Len(Installed) |-> calculate_distance(nc, Installed[i].template)]}

\* entry i is at the least of the distances ds, and no earlier entry is
Nearest(ds, i) ==
  /\ \A j \in 1..Len(Installed) : ds[i] <= ds[j]
  /\ \A j \in 1..(i - 1) : ds[j] > ds[i]

\* the finger and thumb states of the frame
FingersUp == get_fingers_up(current_landmarks)
ThumbUp == is_thumb_up(current_landmarks)
AnyFinger == \E i \in 1..4 : FingersUp[i]
AllFingers == \A i \in 1..4 : FingersUp[i]

\* C22: the decision is Custom only when the nearest template is strictly
\* closer than 0.15: with no template, or with every template at 0.15 or
\* more, the decision is not Custom.
C22_CustomOnlyBelowThreshold ==
  (AfterRecognize /\ decision.gesture_type = "custom")
    => \A nc \in NormalizedCurrent : \A ds \in Distances(nc) :
         \E i \in 1..Len(Installed) : ds[i] < MatchThreshold

\* a frame exactly 0.15 away from the only template was just classified
C22_Witness ==
  /\ AfterRecognize
  /\ Len(Installed) = 1
  /\ decision.gesture_type # "custom"
  /\ \A nc \in NormalizedCurrent : \A ds \in Distances(nc) :
       ds[1] = MatchThreshold

\* C23: if the normalized frame equals a stored template with id T, the
\* decision is Custom(T) with confidence 1.0, heuristics enabled or not.
C23_ExactMatchReturnsThatTemplate ==
  AfterRecognize
    => \A nc \in NormalizedCurrent : \A i \in 1..Len(Installed) :
         nc = Installed[i].template
           => decision = Decision("custom", Scale, Installed[i].gid)

\* C23 (amended): if the normalized frame equals a stored template, the
\* decision is Custom with confidence 1.0 and carries the id of the first
\* template, in insertion order, that equals the frame (T itself unless an
\* identical template was inserted before it), heuristics enabled or not.
C23_ExactMatchReturnsFirstEqual ==
  AfterRecognize
    => \A nc \in NormalizedCurrent : \A i \in 1..Len(Installed) :
         (/\ nc = Installed[i].template
          /\ \A j \in 1..(i - 1) : nc # Installed[j].template)
           => decision = Decision("custom", Scale, Installed[i].gid)

\* a frame equal to two stored templates was just classified with the
\* heuristics enabled, and it also satisfies the victory rule
C23_Witness ==
  /\ AfterRecognize
  /\ enable_predefined_gestures
  /\ Len(Installed) = 2
  /\ FingersUp = <<TRUE, TRUE, FALSE, FALSE>>
  /\ decision = Decision("custom", Scale, Installed[1].gid)
  /\ \A nc \in NormalizedCurrent :
       nc = Installed[1].template /\ nc = Installed[2].template

\* C24: when the decision is not Custom and heuristics are enabled, it is the
\* first rule that holds in the order fist, open palm, thumbs up, victory,
\* point up; when no rule holds or heuristics are disabled it is None with
\* confidence 0 and an empty id.
C24_HeuristicRuleOrder ==
  (AfterRecognize /\ decision.gesture_type # "custom")
    => LET fist == ~AnyFinger /\ ~ThumbUp
           open_palm == AllFingers /\ ThumbUp
           thumbs_up == ThumbUp /\ ~AnyFinger
           victory == FingersUp[1] /\ FingersUp[2] /\ ~FingersUp[3] /\ ~FingersUp[4]
           point_up == FingersUp[1] /\ ~FingersUp[2] /\ ~FingersUp[3] /\ ~FingersUp[4]
           chosen ==
             IF ~enable_predefined_gestures THEN ""
             ELSE IF fist THEN "fist"
             ELSE IF open_palm THEN "open_palm"
             ELSE IF thumbs_up THEN "thumbs_up"
             ELSE IF victory THEN "victory"
             ELSE IF point_up THEN "point_up"
             ELSE ""
       IN /\ decision.gesture_id = chosen
          /\ chosen = "" => decision = Decision("none", 0, "")
          /\ chosen # "" => decision.gesture_type = chosen

\* a thumb-only hand was just classified by the rules
C24_Witness ==
  /\ AfterRecognize
  /\ enable_predefined_gestures
  /\ ~AnyFinger /\ ThumbUp
  /\ decision.gesture_id = "thumbs_up"

\* C25: the decision is the one the same frame and template collection
\* always give, and among templates at the same least distance the one
\* inserted first is returned.
C25_FirstNearestWins ==
  AfterRecognize
    => /\ decision = recognize_gesture(current_landmarks, Installed,
                                       enable_predefined_gestures)
       /\ decision.gesture_type = "custom"
            => \A nc \in NormalizedCurrent : \A ds \in Distances(nc) :
                 \E i \in 1..Len(Installed) :
                   Nearest(ds, i) /\ decision.gesture_id = Installed[i].gid

\* a frame at the same non-zero distance from two templates was just
\* classified
C25_Witness ==
  /\ AfterRecognize
  /\ Len(Installed) = 2
  /\ decision.gesture_type = "custom"
  /\ decision.gesture_id = Installed[1].gid
  /\ \A nc \in NormalizedCurrent : \A ds \in Distances(nc) :
       ds[1] = ds[2] /\ ds[1] > 0

\* C26: the confidence lies in [0, 1]: 1 - distance with 0 <= distance < 0.15
\* for a Custom decision, 0.9 for a built-in decision, 0 for None.
C26_ConfidenceRange ==
  /\ 0 <= decision.confidence /\ decision.confidence <= Scale
  /\ decision.gesture_type = "custom"
       => \A nc \in NormalizedCurrent : \A ds \in Distances(nc) :
            \E i \in 1..Len(Installed) :
              /\ decision.confidence = Scale - ds[i]
              /\ 0 <= ds[i] /\ ds[i] < MatchThreshold
  /\ decision.gesture_type \in PredefinedIds
       => 10 * decision.confidence = 9 * Scale
  /\ decision.gesture_type = "none" => decision.confidence = 0

\* a Custom decision was just made at a distance that is not zero
C26_Witness ==
  /\ AfterRecognize
  /\ decision.gesture_type = "custom"
  /\ decision.confidence < Scale
  /\ decision.confidence > Scale - MatchThreshold

\* C27: a template whose point count differs from the frame's is at infinite
\* distance and is never the match, and the templates of the right length
\* are still matched in the same scan.
C27_LengthMismatchNeverMatches ==
  AfterRecognize
    => \A nc \in NormalizedCurrent : \A ds \in Distances(nc) :
         /\ \A i \in 1..Len(Installed) :
              Len(Installed[i].template) # Len(current_landmarks)
                => ds[i] = Infinity /\ decision.gesture_id # Installed[i].gid
         /\ (\E i \in 1..Len(Installed) :
               /\ Len(Installed[i].template) = Len(current_landmarks)
               /\ ds[i] < MatchThreshold)
              => decision.gesture_type = "custom"

\* a frame was just matched to the template stored after a short one
C27_Witness ==
  /\ AfterRecognize
  /\ Len(Installed) = 2
  /\ Len(Installed[1].template) # Len(current_landmarks)
  /\ decision.gesture_type = "custom"
  /\ decision.gesture_id = Installed[2].gid

\* the largest point norm of a point sequence
MaxNorm(pts) == MaxOver([i \in 1..Len(pts) |-> Norm(pts[i].items)], 1, 0)

\* every point of the frame lies on the wrist
AllOnWrist ==
  \A i \in 1..Len(current_landmarks) :
    current_landmarks[i] = current_landmarks[1]

\* every point of pts is the origin
AllAtOrigin(pts) == \A i \in 1..Len(pts) : pts[i].items = <<0, 0, 0>>

\* C28: the normalized frame has point 0 at the origin and a largest point
\* norm of exactly 1, or every point at the origin when the whole frame
\* coincides with the wrist; normalizing it again gives the same points.
C28_NormalizeExact ==
  AfterRecognize
    => \A nc \in NormalizedCurrent :
         /\ nc[1].items = <<0, 0, 0>>
         /\ IF AllOnWrist THEN AllAtOrigin(nc) ELSE MaxNorm(nc) = Scale
         /\ \A again \in {normalize_landmarks(nc)} : again = nc

\* C28 (amended): the normalized frame has point 0 at the origin and a
\* largest point norm of 1 up to one rounding unit, or every point at the
\* origin when the whole frame coincides with the wrist; normalizing it again
\* moves no coordinate by more than one rounding unit.
C28_NormalizeWithinRounding ==
  AfterRecognize
    => \A nc \in NormalizedCurrent :
         /\ nc[1].items = <<0, 0, 0>>
         /\ IF AllOnWrist THEN AllAtOrigin(nc)
            ELSE \A m \in {MaxNorm(nc)} : Abs(m - Scale) <= 1
         /\ \A again \in {normalize_landmarks(nc)} :
              \A i \in 1..Len(nc) : \A c \in 1..3 :
                Abs(again[i].items[c] - nc[i].items[c]) <= 1

\* a frame whose normalized form has a largest norm one unit off 1, and
\* moves when normalized again, was just classified
C28_Witness ==
  /\ AfterRecognize
  /\ \A nc \in NormalizedCurrent :
       /\ \A m \in {MaxNorm(nc)} : Abs(m - Scale) = 1
       /\ \A again \in {normalize_landmarks(nc)} : again # nc

(* ------------- template replacement under a running worker -------------- *)

\* frames the worker classifies while templates are replaced
ScanInputs == {Pose(VictoryFingers, FALSE), Pose(OpenFingers, TRUE)}

\* template dicts installed while the worker runs: none, one, two
SwapInputs ==
  { <<>>,
    << Entry("tpl1", Pose(VictoryFingers, FALSE)) >>,
    << Entry("tpl1", Pose(FistFingers, FALSE)),
       Entry("tpl2", Pose(OpenFingers, TRUE)) >> }

\* the record kept in `call` when a scan ends: the collection it iterated
ScanCall(scanned) == [op |-> "scan_end", scanned |-> scanned]

\* the dict objects referenced by the detector or by a frame of either thread
Live(installed, w, m) ==
  {installed} \cup (IF w.pc = "scan" THEN {w.dict} ELSE {})
              \cup (IF m.pc = "fill" THEN {m.new_templates} ELSE {})

\* CameraWorker.run has constructed GestureDetector() with its defaults
InitSwap ==
  /\ OutsideDetector
  /\ call = DetectorCall("init")
  /\ objects = [id \in {1} |-> <<>>]
  /\ custom_templates = 1
  /\ enable_predefined_gestures = FALSE
  /\ current_landmarks = <<>>
  /\ decision = Decision("none", 0, "")
  /\ worker = Idle
  /\ main = Idle
  /\ NotStarted

\* set_custom_templates that empties the installed dict and fills it again
SwapBegin_in_place ==
  /\ main.pc = "idle"
  /\ \E templates \in SwapInputs :
       /\ objects' = [objects EXCEPT ![custom_templates] = <<>>]
       /\ main' = [pc |-> "fill", new_templates |-> custom_templates,
                   templates |-> templates]
  /\ call' = DetectorCall("set_custom_templates")
  /\ UNCHANGED <<custom_templates, enable_predefined_gestures,
                 current_landmarks, decision, worker, outsideVars, uiVars>>

\* main thread, set_custom_templates line 82: new_templates = {}
SwapBegin ==
  /\ main.pc = "idle"
  /\ \E templates \in SwapInputs :
       \E id \in {NewObject(objects)} :
         /\ objects' = [o \in DOMAIN objects \cup {id} |->
                          IF o = id THEN <<>> ELSE objects[o]]
         /\ main' = [pc |-> "fill", new_templates |-> id,
                     templates |-> templates]
  /\ call' = DetectorCall("set_custom_templates")
  /\ UNCHANGED <<custom_templates, enable_predefined_gestures,
                 current_landmarks, decision, worker, outsideVars, uiVars>>

\* main thread, lines 83-84: one iteration of the loop
SwapFill ==
  /\ main.pc = "fill"
  /\ main.templates # <<>>
  /\ \E t \in {normalize_landmarks(Head(main.templates).template)} :
       objects' = [objects EXCEPT ![main.new_templates] =
                     DictSet(@, Head(main.templates).gid, t)]
  /\ main' = [main EXCEPT !.templates = Tail(@)]
  /\ call' = DetectorCall("set_custom_templates")
  /\ UNCHANGED <<custom_templates, enable_predefined_gestures,
                 current_landmarks, decision, worker, outsideVars, uiVars>>

\* main thread, line 85: self.custom_templates = new_templates
SwapInstall ==
  /\ main.pc = "fill"
  /\ main.templates = <<>>
  /\ custom_templates' = main.new_templates
  /\ main' = Idle
  /\ objects' = Collect(objects, Live(main.new_templates, worker, Idle))
  /\ call' = DetectorCall("set_custom_templates")
  /\ UNCHANGED <<enable_predefined_gestures, current_landmarks, decision,
                 worker, outsideVars, uiVars>>

\* worker thread, lines 207-211: normalize the frame, take the installed
\* dict and start iterating it
ScanBegin ==
  /\ worker.pc = "idle"
  /\ \E lm \in ScanInputs :
       \E nc \in {normalize_landmarks(lm)} :
         worker' = [pc |-> "scan", landmarks |-> lm, normalized_current |-> nc,
                    dict |-> custom_templates,
                    snapshot |-> objects[custom_templates],
                    i |-> 1, best |-> NoMatch, raised |-> FALSE]
  /\ call' = DetectorCall("recognize_gesture")
  /\ UNCHANGED <<objects, custom_templates, enable_predefined_gestures,
                 current_landmarks, decision, main, outsideVars, uiVars>>

\* worker thread, lines 211-215: one iteration over the dict taken at the
\* start; a dict whose size changed makes the iterator raise
ScanStep ==
  /\ worker.pc = "scan"
  /\ ~worker.raised
  /\ worker.i <= Len(worker.snapshot)
  /\ IF Len(objects[worker.dict]) # Len(worker.snapshot)
     THEN worker' = [worker EXCEPT !.raised = TRUE]
     ELSE \E e \in {objects[worker.dict][worker.i]} :
            \E dist \in {calculate_distance(worker.normalized_current,
                                            e.template)} :
              worker' = [worker EXCEPT
                           !.i = @ + 1,
                           !.best = Closer(@, e.gid, dist)]
  /\ call' = DetectorCall("recognize_gesture")
  /\ UNCHANGED <<objects, custom_templates, enable_predefined_gestures,
                 current_landmarks, decision, main, outsideVars, uiVars>>

\* worker thread, lines 217-247: the loop has ended (or raised) and the
\* decision is made
ScanEnd ==
  /\ worker.pc = "scan"
  /\ worker.raised \/ worker.i > Len(worker.snapshot)
  /\ current_landmarks' = worker.landmarks
  /\ decision' = IF worker.raised THEN Decision("none", 0, "")
                 ELSE decide(worker.landmarks, worker.best,
                             enable_predefined_gestures)
  /\ worker' = Idle
  /\ objects' = Collect(objects, Live(custom_templates, Idle, main))
  /\ call' = ScanCall(worker.snapshot)
  /\ UNCHANGED <<custom_templates, enable_predefined_gestures, main,
                 outsideVars, uiVars>>

NextSwap ==
  \/ SwapBegin
  \/ SwapFill
  \/ SwapInstall
  \/ ScanBegin
  \/ ScanStep
  \/ ScanEnd

SpecSwap == InitSwap /\ [][NextSwap]_vars

\* the collections set_custom_templates can install, and the initial one
WholeCollections ==
  {<<>>} \cup {set_custom_templates(templates) : templates \in SwapInputs}

\* C29: a scan iterates one collection that never changes under it and that
\* is a whole collection (the one installed when the scan began), and the
\* decision it ends with is the one that whole collection gives; the
\* installed collection is always a whole one.
C29_ScanSeesWholeCollection ==
  \A whole \in {WholeCollections} :
    /\ objects[custom_templates] \in whole
    /\ worker.pc = "scan"
         => /\ ~worker.raised
            /\ objects[worker.dict] = worker.snapshot
            /\ worker.snapshot \in whole
    /\ call.op = "scan_end"
         => /\ call.scanned \in whole
            /\ decision = recognize_gesture(current_landmarks, call.scanned,
                                            enable_predefined_gestures)

\* a scan is past its first template while another collection has been
\* installed and a third is being filled
C29_Witness ==
  /\ worker.pc = "scan"
  /\ worker.i > 1
  /\ worker.dict # custom_templates
  /\ objects[worker.dict] # objects[custom_templates]
  /\ main.pc = "fill"
  /\ objects[main.new_templates] # <<>>

(* --------------- the registry under the main thread's loop -------------- *)

\* <<action_type, action_value>> pairs chosen in the edit dialog
LoopChoices ==
  { <<"mouse", <<"r", "i", "g", "h", "t", "_", "c", "l", "i", "c", "k">>>>,
    <<"key", <<"a">>>> }

\* the record kept in `call` by a step of a configuration handler
LoopCall(op, gesture_id) == [op |-> op, gesture_id |-> gesture_id]

\* a handler of the configuration panel at one of its statements; before
\* and after are the table when it began and the table it is to leave
Handler(pc, gesture_id, action_value, next, before, after) ==
  [pc |-> pc, gesture_id |-> gesture_id, action_value |-> action_value,
   next |-> next, before |-> before, after |-> after]

\* what a step of a handler leaves alone besides the registry
loopRest ==
  <<now, last_action_time, action_cooldown, sent, result,
    custom_gestures_data, settings, detectorVars, worker, uiVars>>

\* on_gesture_detected -> process_control, run by any thread at any moment
LoopDispatch_any_time ==
  /\ \E gesture_id \in EditInputs :
       \E d \in {process_control(gesture_id, now, 0)} :
         /\ last_action_time' = IF d.out.recorded THEN now
                                ELSE last_action_time
         /\ sent' = d.out.sent
         /\ result' = d.out.ok
         /\ call' = Call("process_control", gesture_id, d.stage,
                         d.action_type, d.action_value, d.out.raised, 0)
  /\ UNCHANGED <<now, action_cooldown, mappings, storeVars, detectorVars,
                 threadVars, uiVars>>

\* the queued gesture_detected event: on_gesture_detected ->
\* process_control, taken from the event queue when the main thread is
\* between two handlers
LoopDispatch ==
  /\ main.pc = "idle"
  /\ \E gesture_id \in EditInputs :
       \E d \in {process_control(gesture_id, now, 0)} :
         /\ last_action_time' = IF d.out.recorded THEN now
                                ELSE last_action_time
         /\ sent' = d.out.sent
         /\ result' = d.out.ok
         /\ call' = Call("process_control", gesture_id, d.stage,
                         d.action_type, d.action_value, d.out.raised, 0)
  /\ UNCHANGED <<now, action_cooldown, mappings, storeVars, detectorVars,
                 threadVars, uiVars>>

\* open_edit_dialog after the dialog was accepted: update_mapping line 206
\* and the store of line 207
UpdateType ==
  /\ main.pc = "idle"
  /\ \E gesture_id \in EditInputs, choice \in LoopChoices :
       /\ gesture_id \in DOMAIN mappings
       /\ mappings' = [mappings EXCEPT ![gesture_id].action_type = choice[1]]
       /\ main' = Handler("update_value", gesture_id, choice[2], 0, mappings,
                          update_mapping(gesture_id, choice[1], choice[2],
                                         TRUE))
       /\ call' = LoopCall("update_mapping", gesture_id)
  /\ UNCHANGED <<loopRest, document>>

\* update_mapping line 208
UpdateValue ==
  /\ main.pc = "update_value"
  /\ mappings' = [mappings EXCEPT
                    ![main.gesture_id].action_value = main.action_value]
  /\ main' = [main EXCEPT !.pc = "update_enabled"]
  /\ call' = LoopCall("update_mapping", main.gesture_id)
  /\ UNCHANGED <<loopRest, document>>

\* update_mapping leaving the enabled flag as it found it
UpdateEnabled_preserving ==
  /\ main.pc = "update_enabled"
  /\ mappings' = mappings
  /\ main' = [main EXCEPT !.pc = "save"]
  /\ call' = LoopCall("update_mapping", main.gesture_id)
  /\ UNCHANGED <<loopRest, document>>

\* update_mapping line 209
UpdateEnabled ==
  /\ main.pc = "update_enabled"
  /\ mappings' = [mappings EXCEPT ![main.gesture_id].enabled = TRUE]
  /\ main' = [main EXCEPT !.pc = "save"]
  /\ call' = LoopCall("update_mapping", main.gesture_id)
  /\ UNCHANGED <<loopRest, document>>

\* toggle_mapping: set_enabled, one store
Toggle ==
  /\ main.pc = "idle"
  /\ \E gesture_id \in EditInputs, enabled \in BOOLEAN :
       /\ mappings' = set_enabled(gesture_id, enabled)
       /\ main' = Handler("save", gesture_id, <<>>, 0, mappings,
                          set_enabled(gesture_id, enabled))
       /\ call' = LoopCall("set_enabled", gesture_id)
  /\ UNCHANGED <<loopRest, document>>

\* reset_defaults after the question was answered yes:
\* _create_default_mappings line 178, self.mappings.clear()
ResetClear ==
  /\ main.pc = "idle"
  /\ mappings' = EmptyDict
  /\ main' = Handler("reset_fill", "", <<>>, 1, mappings,
                     create_default_mappings)
  /\ call' = LoopCall("reset_defaults", "")
  /\ UNCHANGED <<loopRest, document>>

\* _create_default_mappings lines 179-187: one iteration of the loop
ResetFill ==
  /\ main.pc = "reset_fill"
  /\ \E g \in {PREDEFINED_GESTURES[main.next][1]} :
       mappings' = Put(mappings, g, create_default_mappings[g])
  /\ main' = IF main.next = Len(PREDEFINED_GESTURES)
             THEN [main EXCEPT !.pc = "save"]
             ELSE [main EXCEPT !.next = @ + 1]
  /\ call' = LoopCall("reset_defaults", "")
  /\ UNCHANGED <<loopRest, document>>

\* the manager.save() that ends each of the three handlers
HandlerSave ==
  /\ main.pc = "save"
  /\ \E outcome \in SaveOutcomes :
       document' = save(document, settings, custom_gestures_data, mappings,
                        outcome)
  /\ main' = Idle
  /\ call' = LoopCall("save", "")
  /\ UNCHANGED <<loopRest, mappings>>

NextLoop ==
  \/ LoopDispatch
  \/ UpdateType
  \/ UpdateValue
  \/ UpdateEnabled
  \/ Toggle
  \/ ResetClear
  \/ ResetFill
  \/ HandlerSave

SpecLoop == Init /\ [][NextLoop]_vars

\* a handler is between two of its stores: the table is neither the one it
\* found nor the one it leaves
HalfUpdated ==
  /\ main.pc # "idle"
  /\ mappings # main.before
  /\ mappings # main.after

\* C30: registry contents are replaced wholesale: the table is never
\* half-updated, so no dispatch can read a mapping with a new action_type
\* and an old action_value or enabled flag, nor a table cleared and not yet
\* refilled.
C30_RegistryReplacedWholesale == ~HalfUpdated

\* C30 (amended): the registry is mutated in place, field by field, and a
\* reset clears and refills it, but every dispatch runs on the main thread
\* between two handlers, so no dispatch reads a half-updated table; every
\* handler leaves the table it set out to leave.
C30_NoDispatchReadsHalfUpdated ==
  [][/\ call'.op = "process_control" => (main.pc = "idle" /\ ~HalfUpdated)
     /\ (main.pc # "idle" /\ main'.pc \in {"save", "idle"})
          => mappings' = main.after]_vars

\* a dispatch has just executed the action an edit stored, after a reset
\* and an edit went through their half-updated tables
C30_Witness ==
  /\ call.op = "process_control"
  /\ call.stage = "executed"
  /\ call.action_type = "mouse"
  /\ document # MissingDocument
  /\ main.pc = "idle"

(* ----------------------- the application as wired ----------------------- *)

\* C39: after press_key or press_key_combo has returned, whatever it
\* returned, every key it pressed has also been released, also when a call
\* of the injection primitive raised part-way.
C39_PressedKeysReleased ==
  (AfterDispatch /\ call.action_type \in {"key", "key_combo"})
    => \A i \in 1..Len(sent) :
         sent[i].ev = "press"
           => \E j \in (i + 1)..Len(sent) :
                sent[j].ev = "release" /\ sent[j].target = sent[i].target

\* C38: update_mapping called as the edit dialog calls it, without an
\* enabled argument, leaves the mapping enabled: an edit of a gesture that
\* set_enabled had disabled enables it again.
C38_EditEnables ==
  (main.pc = "save" /\ call.op = "update_mapping")
    => /\ mappings[main.gesture_id].enabled
       /\ mappings = [main.before EXCEPT
                        ![main.gesture_id].action_type =
                           main.after[main.gesture_id].action_type,
                        ![main.gesture_id].action_value =
                           main.after[main.gesture_id].action_value,
                        ![main.gesture_id].enabled = TRUE]

\* the edit of a disabled gesture has just made its last store
C38_Witness ==
  /\ main.pc = "save"
  /\ call.op = "update_mapping"
  /\ ~main.before[main.gesture_id].enabled
  /\ mappings[main.gesture_id].enabled

(* ---------------- camera_preview.py: the worker's life ----------------- *)

\* the value None of a field that holds an object or None
NoObject == [kind |-> "None"]

\* a CameraCapture object: cap is "None", "unopened" (a VideoCapture that
\* did not open), or "open"
CameraCapture(source, cap, is_running) ==
  [kind |-> "CameraCapture", source |-> source, cap |-> cap,
   is_running |-> is_running]

\* a GestureDetector object as CameraWorker.run constructs it
GestureDetector(templates, names, released) ==
  [kind |-> "GestureDetector", custom_templates |-> templates,
   gesture_names |-> names, released |-> released]

\* truth value of an object-or-None field, and of a dict-or-None field
IsObject(field) == field.kind # "None"
NonEmptyDict(field) == field.kind # "None" /\ field.items # <<>> /\ field.items # EmptyDict

\* a dict handed over by reference
DictRef(items) == [kind |-> "dict", items |-> items]

\* names of the built-in gestures, and with one custom gesture added:
\* what update_gesture_templates collects
BuiltinNames == [g \in PredefinedIds |-> create_default_mappings[g].name]
NamesWithCustom == Put(BuiltinNames, "tpl1", "Wave")

\* <<templates, names>> pushed by update_gesture_templates: without and with
\* a custom gesture
PushInputs ==
  { <<DictRef(<<>>), DictRef(BuiltinNames)>>,
    <<DictRef(<< Entry("tpl1", Pose(VictoryFingers, FALSE)) >>),
      DictRef(NamesWithCustom)>> }

\* camera sources given to set_camera_source
SourceInputs == {1}

\* the record kept in `call` by a step of either thread
WorkerCall(op) == [op |-> op]

\* the control thread: the statement it is at, the arguments of the call it
\* is in, and what update_gesture_templates pushed last
Control(pc, arg, pushed) == [pc |-> pc, arg |-> arg, pushed |-> pushed]

\* what no step of the worker's life touches
lifeRest ==
  <<now, last_action_time, action_cooldown, mappings, sent, result,
    storeVars, detectorVars, main_window>>

\* MainWindow.__init__ has run: setup_ui has pushed the templates and the
\* names of a registry without custom gestures; nothing is started
InitWorker ==
  /\ OutsideDetector
  /\ objects = EmptyDict
  /\ custom_templates = 0
  /\ enable_predefined_gestures = FALSE
  /\ current_landmarks = <<>>
  /\ decision = Decision("none", 0, "")
  /\ worker = Idle
  /\ call = WorkerCall("init")
  /\ \E push \in {<<DictRef(<<>>), DictRef(BuiltinNames)>>} :
       /\ camera_worker =
            [source |-> 0, camera |-> NoObject, running |-> FALSE,
             detector |-> NoObject,
             pending_custom_templates |-> push[1],
             pending_gesture_names |-> push[2]]
       /\ main = Control("idle", <<>>, push)
  /\ camera_preview = [is_running |-> FALSE]
  /\ main_window = [is_controlling |-> FALSE, last_gesture |-> "none"]

(* the control thread *)

\* CameraPreview.start_camera
StartCamera ==
  /\ main.pc = "idle"
  /\ IF ~camera_preview.is_running
     THEN /\ worker' = IF worker.pc = "idle" THEN [pc |-> "run"] ELSE worker
          /\ camera_preview' = [camera_preview EXCEPT !.is_running = TRUE]
     ELSE UNCHANGED <<worker, camera_preview>>
  /\ call' = WorkerCall("start_camera")
  /\ UNCHANGED <<main, camera_worker, lifeRest>>

\* CameraPreview.stop_camera up to CameraWorker.stop line 97
StopCamera ==
  /\ main.pc = "idle"
  /\ IF camera_preview.is_running
     THEN /\ camera_worker' = [camera_worker EXCEPT !.running = FALSE]
          /\ main' = [main EXCEPT !.pc = "wait", !.arg = <<"stop_camera">>]
     ELSE UNCHANGED <<camera_worker, main>>
  /\ call' = WorkerCall("stop_camera")
  /\ UNCHANGED <<worker, camera_preview, lifeRest>>

\* CameraPreview.set_camera_source up to CameraWorker.stop line 97
SetCameraSource ==
  /\ main.pc = "idle"
  /\ \E source \in SourceInputs :
       main' = [main EXCEPT !.pc = "wait", !.arg = <<"set_source", source>>]
  /\ camera_worker' = [camera_worker EXCEPT !.running = FALSE]
  /\ call' = WorkerCall("set_camera_source")
  /\ UNCHANGED <<worker, camera_preview, lifeRest>>

\* CameraWorker.stop line 98: wait() returns once the thread has finished
\* (at once when it is not running), and the caller goes on
WaitReturns ==
  /\ main.pc = "wait"
  /\ worker.pc = "idle"
  /\ IF main.arg[1] = "stop_camera"
     THEN /\ camera_preview' = [camera_preview EXCEPT !.is_running = FALSE]
          /\ UNCHANGED camera_worker
     ELSE \* set_source lines 102-103, then set_camera_source lines 173-174:
          \* start_camera starts nothing when is_running is already True
          /\ camera_worker' = [camera_worker EXCEPT !.source = main.arg[2],
                                                    !.camera = NoObject]
          /\ UNCHANGED camera_preview
  /\ main' = [main EXCEPT !.pc = "idle", !.arg = <<>>]
  /\ call' = WorkerCall("wait")
  /\ UNCHANGED <<worker, lifeRest>>

\* MainWindow.update_gesture_templates: update_custom_templates line 107
PushCheckTemplates ==
  /\ main.pc = "idle"
  /\ \E push \in PushInputs :
       main' = [main EXCEPT
                  !.pc = IF IsObject(camera_worker.detector)
                         THEN "set_templates" ELSE "keep_templates",
                  !.arg = push]
  /\ call' = WorkerCall("update_custom_templates")
  /\ UNCHANGED <<worker, camera_worker, camera_preview, lifeRest>>

\* update_custom_templates line 108: set_custom_templates on the detector
\* found at line 107, ending with the assignment of line 85
PushSetTemplates ==
  /\ main.pc = "set_templates"
  /\ IF IsObject(camera_worker.detector)
     THEN \E t \in {set_custom_templates(main.arg[1].items)} :
            camera_worker' =
              [camera_worker EXCEPT !.detector.custom_templates = t]
     ELSE UNCHANGED camera_worker
  /\ main' = [main EXCEPT !.pc = "check_names"]
  /\ call' = WorkerCall("update_custom_templates")
  /\ UNCHANGED <<worker, camera_preview, lifeRest>>

\* update_custom_templates line 110
PushKeepTemplates ==
  /\ main.pc = "keep_templates"
  /\ camera_worker' =
       [camera_worker EXCEPT !.pending_custom_templates = main.arg[1]]
  /\ main' = [main EXCEPT !.pc = "check_names"]
  /\ call' = WorkerCall("update_custom_templates")
  /\ UNCHANGED <<worker, camera_preview, lifeRest>>

\* update_gesture_names line 114
PushCheckNames ==
  /\ main.pc = "check_names"
  /\ main' = [main EXCEPT
                !.pc = IF IsObject(camera_worker.detector)
                       THEN "set_names" ELSE "keep_names"]
  /\ call' = WorkerCall("update_gesture_names")
  /\ UNCHANGED <<worker, camera_worker, camera_preview, lifeRest>>

\* update_gesture_names line 115; the handler ends
PushSetNames ==
  /\ main.pc = "set_names"
  /\ camera_worker' =
       IF IsObject(camera_worker.detector)
       THEN [camera_worker EXCEPT !.detector.gesture_names = main.arg[2].items]
       ELSE camera_worker
  /\ main' = Control("idle", <<>>, main.arg)
  /\ call' = WorkerCall("update_gesture_names")
  /\ UNCHANGED <<worker, camera_preview, lifeRest>>

\* update_gesture_names line 117; the handler ends
PushKeepNames ==
  /\ main.pc = "keep_names"
  /\ camera_worker' =
       [camera_worker EXCEPT !.pending_gesture_names = main.arg[2]]
  /\ main' = Control("idle", <<>>, main.arg)
  /\ call' = WorkerCall("update_gesture_names")
  /\ UNCHANGED <<worker, camera_preview, lifeRest>>

(* the worker thread: CameraWorker.run *)

\* what a step of run() leaves alone besides worker and camera_worker
runRest == <<main, camera_preview, lifeRest>>

\* lines 34-35
RunMakeCamera ==
  /\ worker.pc = "run"
  /\ camera_worker' =
       IF IsObject(camera_worker.camera) THEN camera_worker
       ELSE [camera_worker EXCEPT
               !.camera = CameraCapture(camera_worker.source, "None", FALSE)]
  /\ worker' = [pc |-> "make_detector"]
  /\ call' = WorkerCall("run")
  /\ UNCHANGED runRest

\* lines 37-38
RunMakeDetector ==
  /\ worker.pc = "make_detector"
  /\ IF IsObject(camera_worker.detector)
     THEN /\ worker' = [pc |-> "start"]
          /\ UNCHANGED camera_worker
     ELSE /\ worker' = [pc |-> "check_templates"]
          /\ camera_worker' =
               [camera_worker EXCEPT
                  !.detector = GestureDetector(<<>>, EmptyDict, FALSE)]
  /\ call' = WorkerCall("run")
  /\ UNCHANGED runRest

\* lines 39-40 up to the call: the pending templates are read
RunCheckTemplates ==
  /\ worker.pc = "check_templates"
  /\ worker' = IF NonEmptyDict(camera_worker.pending_custom_templates)
               THEN [pc |-> "set_templates",
                     templates |-> camera_worker.pending_custom_templates]
               ELSE [pc |-> "check_names"]
  /\ call' = WorkerCall("run")
  /\ UNCHANGED <<camera_worker, runRest>>

\* line 40: set_custom_templates, ending with the assignment of line 85
RunSetTemplates ==
  /\ worker.pc = "set_templates"
  /\ \E t \in {set_custom_templates(worker.templates.items)} :
       camera_worker' = [camera_worker EXCEPT !.detector.custom_templates = t]
  /\ worker' = [pc |-> "check_names"]
  /\ call' = WorkerCall("run")
  /\ UNCHANGED runRest

\* lines 41-42 up to the call: the pending names are read
RunCheckNames ==
  /\ worker.pc = "check_names"
  /\ worker' = IF NonEmptyDict(camera_worker.pending_gesture_names)
               THEN [pc |-> "set_names",
                     names |-> camera_worker.pending_gesture_names]
               ELSE [pc |-> "start"]
  /\ call' = WorkerCall("run")
  /\ UNCHANGED <<camera_worker, runRest>>

\* line 42: set_gesture_names
RunSetNames ==
  /\ worker.pc = "set_names"
  /\ camera_worker' =
       [camera_worker EXCEPT !.detector.gesture_names = worker.names.items]
  /\ worker' = [pc |-> "start"]
  /\ call' = WorkerCall("run")
  /\ UNCHANGED runRest

\* line 44: self.running = self.camera.start(); the device opens or not
RunStartCamera ==
  /\ worker.pc = "start"
  /\ \E opened \in BOOLEAN :
       camera_worker' =
         [camera_worker EXCEPT
            !.running = opened,
            !.camera = CameraCapture(@.source,
                                     IF opened THEN "open" ELSE "unopened",
                                     opened)]
  /\ worker' = [pc |-> "loop"]
  /\ call' = WorkerCall("run")
  /\ UNCHANGED runRest

\* line 48: while self.running
RunLoopTest ==
  /\ worker.pc = "loop"
  /\ worker' = IF camera_worker.running THEN [pc |-> "read"]
               ELSE [pc |-> "stop_camera"]
  /\ call' = WorkerCall("run")
  /\ UNCHANGED <<camera_worker, runRest>>

\* line 57: self.camera.read() gives a frame, gives none, or raises; an
\* exception leaves run() and ends the thread
RunRead ==
  /\ worker.pc = "read"
  /\ \E outcome \in {"frame", "no_frame", "raised"} :
       worker' = CASE outcome = "frame" -> [pc |-> "process"]
                   [] outcome = "no_frame" -> [pc |-> "loop"]
                   [] outcome = "raised" -> [pc |-> "idle"]
  /\ call' = WorkerCall("read")
  /\ UNCHANGED <<camera_worker, runRest>>

\* lines 58-83: the frame is processed and emitted, or processing raises
RunProcess ==
  /\ worker.pc = "process"
  /\ \E outcome \in {"emitted", "raised"} :
       worker' = IF outcome = "emitted" THEN [pc |-> "loop"]
                 ELSE [pc |-> "idle"]
  /\ call' = WorkerCall("process_frame")
  /\ UNCHANGED <<camera_worker, runRest>>

\* lines 88-89: CameraCapture.stop
RunStopCamera ==
  /\ worker.pc = "stop_camera"
  /\ camera_worker' =
       IF IsObject(camera_worker.camera)
       THEN [camera_worker EXCEPT
               !.camera = CameraCapture(@.source, "None", FALSE)]
       ELSE camera_worker
  /\ worker' = [pc |-> "release_detector"]
  /\ call' = WorkerCall("run")
  /\ UNCHANGED runRest

\* lines 92-94: the detector is released and dropped; run() returns
RunReleaseDetector ==
  /\ worker.pc = "release_detector"
  /\ camera_worker' = [camera_worker EXCEPT !.detector = NoObject]
  /\ worker' = [pc |-> "idle"]
  /\ call' = WorkerCall("finished")
  /\ UNCHANGED runRest

NextWorker ==
  \/ StartCamera
  \/ StopCamera
  \/ SetCameraSource
  \/ WaitReturns
  \/ PushCheckTemplates
  \/ PushSetTemplates
  \/ PushKeepTemplates
  \/ PushCheckNames
  \/ PushSetNames
  \/ PushKeepNames
  \/ RunMakeCamera
  \/ RunMakeDetector
  \/ RunCheckTemplates
  \/ RunSetTemplates
  \/ RunCheckNames
  \/ RunSetNames
  \/ RunStartCamera
  \/ RunLoopTest
  \/ RunRead
  \/ RunProcess
  \/ RunStopCamera
  \/ RunReleaseDetector

SpecWorker == InitWorker /\ [][NextWorker]_vars

(* ----------------------- worker life properties ------------------------ *)

\* the worker is in its capture loop (lines 48-85)
InLoop == worker.pc \in {"loop", "read", "process"}

\* the capture handle is released and the detector is released and dropped
Released ==
  /\ IsObject(camera_worker.camera) => camera_worker.camera.cap = "None"
  /\ ~IsObject(camera_worker.detector)

\* C31: once stop() has set the stop signal the loop starts no further
\* frame, and whenever run() ends, by leaving the loop, by an error raised
\* while reading or processing a frame, or after a camera that did not open,
\* the camera handle and the detector have been released.
C31_ShutdownReleases ==
  [][/\ (main.pc = "wait" /\ worker.pc = "loop") => worker'.pc # "read"
     /\ (worker.pc # "idle" /\ worker'.pc = "idle") => Released']_vars

\* C32: stop() returns: while the control thread waits in stop() for a
\* worker that is in its loop, the running flag is off, so that the loop is
\* left at its next test; this also when stop() came while run() was
\* still starting up.
C32_StopFindsLoopLeaving ==
  (main.pc = "wait" /\ InLoop) => ~camera_worker.running

\* C33: whenever the worker is in its loop and no push is under way, the
\* detector it classifies with holds the templates and the names pushed
\* last.
C33_DetectorHoldsLastPush ==
  (main.pc = "idle" /\ InLoop)
    => /\ IsObject(camera_worker.detector)
       /\ \A t \in {set_custom_templates(main.pushed[1].items)} :
            camera_worker.detector.custom_templates = t
       /\ camera_worker.detector.gesture_names = main.pushed[2].items

\* C40: between two handlers of the preview, is_running is true exactly
\* when the worker thread is running.
C40_IsRunningIffWorkerRuns ==
  main.pc = "idle" => (camera_preview.is_running <=> worker.pc # "idle")

(* -------------- main_window.py: frames, control, dispatch -------------- *)

\* hands MediaPipe finds in one frame: none, the victory hand (the pose the
\* custom gesture is created from), a fist, a fist before a victory hand
HandsInputs ==
  { <<>>,
    << Pose(VictoryFingers, FALSE) >>,
    << Pose(FistFingers, FALSE) >>,
    << Pose(FistFingers, FALSE), Pose(VictoryFingers, FALSE) >> }

\* the action chosen when the custom gesture is edited
EditChoices == { <<"key", <<"a">>>> }

\* the items of a dict held as a function, as a sequence of entries
RECURSIVE ItemsOf(_)
ItemsOf(d) ==
  IF DOMAIN d = {} THEN <<>>
  ELSE LET k == CHOOSE x \in DOMAIN d : TRUE
       IN <<Entry(k, d[k])>> \o ItemsOf([x \in DOMAIN d \ {k} |-> d[x]])

\* MainWindow.update_gesture_templates lines 226-236: the names collected
gesture_names(table, templates) ==
  [g \in (PredefinedIds \cup DOMAIN templates) \cap DOMAIN table |->
     table[g].name]

\* update_custom_templates and update_gesture_names on the worker cw, the
\* control thread running alone
push(cw, templates, names) ==
  IF IsObject(cw.detector)
  THEN [cw EXCEPT !.detector.custom_templates =
                     set_custom_templates(ItemsOf(templates)),
                  !.detector.gesture_names = names]
  ELSE [cw EXCEPT !.pending_custom_templates = DictRef(ItemsOf(templates)),
                  !.pending_gesture_names = DictRef(names)]

\* CameraWorker.run from its start to the loop, the control thread idle:
\* the camera opens or not; when it does not, run() ends at once
started(cw, opened) ==
  LET templates == IF NonEmptyDict(cw.pending_custom_templates)
                   THEN set_custom_templates(cw.pending_custom_templates.items)
                   ELSE <<>>
      names == IF NonEmptyDict(cw.pending_gesture_names)
               THEN cw.pending_gesture_names.items ELSE EmptyDict
  IN IF opened
     THEN [cw EXCEPT !.running = TRUE,
                     !.camera = CameraCapture(cw.source, "open", TRUE),
                     !.detector = GestureDetector(templates, names, FALSE)]
     ELSE [cw EXCEPT !.running = FALSE,
                     !.camera = CameraCapture(cw.source, "None", FALSE),
                     !.detector = NoObject]

\* one GestureResult of process_frame
GestureResult(d, names) ==
  [gesture_type |-> d.gesture_type, gesture_id |-> d.gesture_id,
   confidence |-> d.confidence,
   name |-> IF d.gesture_id \in DOMAIN names THEN names[d.gesture_id]
            ELSE IF d.gesture_type = "custom" THEN "Custom"
            ELSE d.gesture_type]

\* process_frame of a detector with the built-in rules switched on
process_frame_with_heuristics(hands) ==
  [i \in 1..Len(hands) |->
     GestureResult(
       recognize_gesture(hands[i], camera_worker.detector.custom_templates,
                         TRUE),
       camera_worker.detector.gesture_names)]

\* GestureDetector.process_frame: one result per hand
process_frame(hands) ==
  [i \in 1..Len(hands) |->
     GestureResult(
       recognize_gesture(hands[i], camera_worker.detector.custom_templates,
                         enable_predefined_gestures),
       camera_worker.detector.gesture_names)]

\* what on_gesture_detected did with a result list
Handled(dispatched, gesture_id, d, last_gesture) ==
  [dispatched |-> dispatched, gesture_id |-> gesture_id, d |-> d,
   last_gesture |-> last_gesture]
NotDispatched ==
  Handled(FALSE, "", Dispatch("", "", <<>>, NotSent), main_window.last_gesture)

\* on_gesture_detected dispatching whether control is on or off
on_gesture_detected_ignoring_control(results, current_time) ==
  IF results = <<>> THEN NotDispatched
  ELSE Handled(TRUE, results[1].gesture_id,
               process_control(results[1].gesture_id, current_time, 0),
               main_window.last_gesture)

\* on_gesture_detected dispatching a gesture only when it differs from
\* the one of the frame before, which it keeps in last_gesture
on_gesture_detected_edge_triggered(results, current_time) ==
  IF results = <<>> THEN NotDispatched
  ELSE IF ~main_window.is_controlling THEN NotDispatched
  ELSE IF results[1].gesture_id = main_window.last_gesture
       THEN NotDispatched
       ELSE Handled(TRUE, results[1].gesture_id,
                    process_control(results[1].gesture_id, current_time, 0),
                    results[1].gesture_id)

\* CameraPreview.process_frame line 193 and MainWindow.on_gesture_detected
on_gesture_detected(results, current_time) ==
  IF results = <<>> THEN NotDispatched
  ELSE IF ~main_window.is_controlling THEN NotDispatched
  ELSE Handled(TRUE, results[1].gesture_id,
               process_control(results[1].gesture_id, current_time, 0),
               main_window.last_gesture)

\* the record kept in `call` by a frame
FrameCall(hands, results, o) ==
  [op |-> IF o.dispatched THEN "process_control" ELSE "on_gesture_detected",
   hands |-> hands, results |-> results, gesture_id |-> o.gesture_id,
   stage |-> o.d.stage, action_type |-> o.d.action_type,
   action_value |-> o.d.action_value,
   controlling |-> main_window.is_controlling,
   last_before |-> last_action_time, cooldown_before |-> action_cooldown]

\* the record kept in `call` by a handler of the window or the panel
AppCall(op) == [op |-> op]

\* MainWindow.__init__: default registry, templates and names pushed to a
\* worker that has no detector yet
InitApp ==
  /\ OutsideDetector
  /\ objects = EmptyDict
  /\ custom_templates = 0
  /\ enable_predefined_gestures = FALSE
  /\ current_landmarks = <<>>
  /\ decision = Decision("none", 0, "")
  /\ worker = Idle
  /\ main = Idle
  /\ call = AppCall("init")
  /\ camera_worker =
       [source |-> 0, camera |-> NoObject, running |-> FALSE,
        detector |-> NoObject,
        pending_custom_templates |-> DictRef(<<>>),
        pending_gesture_names |-> DictRef(BuiltinNames)]
  /\ camera_preview = [is_running |-> FALSE]
  /\ main_window = [is_controlling |-> FALSE, last_gesture |-> "none"]

\* MainWindow.toggle_control, the button clicked; switching on starts the
\* camera when the preview is not running
ToggleControl ==
  /\ \E checked \in {~main_window.is_controlling}, opened \in BOOLEAN :
       IF checked
       THEN /\ main_window' = [main_window EXCEPT !.is_controlling = TRUE]
            /\ IF ~camera_preview.is_running
               THEN /\ camera_worker' = started(camera_worker, opened)
                    /\ camera_preview' = [is_running |-> TRUE]
               ELSE UNCHANGED <<camera_worker, camera_preview>>
       ELSE /\ main_window' = [is_controlling |-> FALSE,
                               last_gesture |-> "none"]
            /\ UNCHANGED <<camera_worker, camera_preview>>
  /\ call' = AppCall("toggle_control")
  /\ sent' = <<>>
  /\ result' = FALSE
  /\ UNCHANGED <<now, last_action_time, action_cooldown, mappings, storeVars,
                 detectorVars, threadVars>>

\* a frame of the running worker, at a clock reading not before the last:
\* process_frame on the worker, then CameraPreview.process_frame and
\* on_gesture_detected on the main thread
FrameCaptured ==
  /\ camera_worker.running
  /\ IsObject(camera_worker.detector)
  /\ \E t \in Instants, hands \in HandsInputs :
       /\ t >= now
       /\ \E results \in {process_frame(hands)} :
            \E o \in {on_gesture_detected(results, t)} :
              /\ now' = t
              /\ last_action_time' = IF o.d.out.recorded THEN t
                                     ELSE last_action_time
              /\ sent' = o.d.out.sent
              /\ result' = o.d.out.ok
              /\ call' = FrameCall(hands, results, o)
              /\ main_window' =
                   [main_window EXCEPT !.last_gesture = o.last_gesture]
  /\ UNCHANGED <<action_cooldown, mappings, storeVars, detectorVars,
                 threadVars, camera_worker, camera_preview>>

\* GestureConfigPanel.create_new_gesture with an accepted dialog, then
\* on_config_changed
CreateGesture ==
  /\ \E name \in NameInputs, outcome \in SaveOutcomes :
       \E a \in {add_custom_gesture(name, Pose(VictoryFingers, FALSE), now)} :
         /\ custom_gestures_data' = a.custom_gestures_data
         /\ mappings' = a.mappings
         /\ document' = save(document, settings, a.custom_gestures_data,
                             a.mappings, outcome)
         /\ camera_worker' =
              push(camera_worker, a.custom_gestures_data,
                   gesture_names(a.mappings, a.custom_gestures_data))
  /\ call' = AppCall("create_new_gesture")
  /\ sent' = <<>>
  /\ result' = FALSE
  /\ UNCHANGED <<now, last_action_time, action_cooldown, settings,
                 detectorVars, threadVars, camera_preview, main_window>>

\* GestureConfigPanel.open_edit_dialog on the custom gesture with an
\* accepted dialog, then on_config_changed
EditGesture ==
  /\ FirstCustomId \in DOMAIN mappings
  /\ \E choice \in EditChoices, outcome \in SaveOutcomes :
       \E table \in {update_mapping(FirstCustomId, choice[1], choice[2],
                                    TRUE)} :
         /\ mappings' = table
         /\ document' = save(document, settings, custom_gestures_data, table,
                             outcome)
         /\ camera_worker' =
              push(camera_worker, custom_gestures_data,
                   gesture_names(table, custom_gestures_data))
  /\ call' = AppCall("open_edit_dialog")
  /\ sent' = <<>>
  /\ result' = FALSE
  /\ UNCHANGED <<now, last_action_time, action_cooldown, settings,
                 custom_gestures_data, detectorVars, threadVars,
                 camera_preview, main_window>>

NextApp == ToggleControl \/ FrameCaptured \/ CreateGesture \/ EditGesture

SpecApp == InitApp /\ [][NextApp]_vars

(* ------------------- properties of the wired application --------------- *)

FrameOps == {"process_control", "on_gesture_detected"}
AfterFrame == call.op \in FrameOps

\* C34: an action is injected only by process_control, only while
\* is_controlling is true, only for a non-empty result list and only with
\* the gesture id of the first hand's result; with control off no step
\* dispatches, sends an event or consumes the cooldown.
C34_NoInjectionWhileOff ==
  [][(\/ sent' # <<>>
      \/ call'.op = "process_control"
      \/ last_action_time' # last_action_time)
       => /\ main_window.is_controlling
          /\ main_window'.is_controlling
          /\ call'.op = "process_control"
          /\ call'.results # <<>>
          /\ call'.gesture_id = call'.results[1].gesture_id]_vars

\* a frame showing the custom gesture, mapped to a key that fired before,
\* arrives with control off and nothing happens
C34_Witness ==
  /\ call.op = "on_gesture_detected"
  /\ ~call.controlling
  /\ call.results # <<>>
  /\ call.results[1].gesture_id = FirstCustomId
  /\ FirstCustomId \in DOMAIN mappings
  /\ mappings[FirstCustomId].action_value = <<"a">>
  /\ last_action_time > 0
  /\ sent = <<>>

\* C35: while control is on, a frame that reports the gesture that fired
\* on the frame before is dispatched again and fires exactly when the
\* cooldown has elapsed since the previous fire; frames never write
\* last_gesture.
C35_LevelTriggered ==
  [][/\ (/\ call.op = "process_control"
         /\ result
         /\ call'.op \in FrameOps
         /\ main_window.is_controlling
         /\ call'.results # <<>>
         /\ call'.results[1].gesture_id = call.gesture_id)
          => /\ call'.op = "process_control"
             /\ result' <=> (now' - last_action_time >= action_cooldown)
             /\ result' => sent' # <<>>
     /\ call'.op \in FrameOps
          => main_window'.last_gesture = main_window.last_gesture]_vars

\* the held gesture fires a second time, a cooldown after the first
C35_Witness ==
  /\ call.op = "process_control"
  /\ result
  /\ call.gesture_id = FirstCustomId
  /\ call.last_before > 0
  /\ now - call.last_before >= action_cooldown
  /\ sent # <<>>
  /\ main_window.last_gesture = "none"

\* C36: the dispatch of a custom gesture whose mapping is still the one
\* add_custom_gesture gave it (type key, empty value) does not fire, sends
\* no event and leaves last_action_time alone.
C36_DefaultMappingNeverFires ==
  (/\ call.op = "process_control"
   /\ call.gesture_id \in DOMAIN custom_gestures_data
   /\ call.action_type = "key"
   /\ call.action_value = <<>>)
    => /\ ~result
       /\ sent = <<>>
       /\ last_action_time = call.last_before

\* the custom gesture is recognized with control on and the cooldown open,
\* its mapping enabled and never edited
C36_Witness ==
  /\ call.op = "process_control"
  /\ call.gesture_id = FirstCustomId
  /\ call.stage = "executed"
  /\ call.action_type = "key"
  /\ call.action_value = <<>>
  /\ now - call.last_before >= action_cooldown
  /\ ~result

\* C37: the detector of the worker never has its built-in rules on, every
\* result of a frame is None with an empty id or Custom with the id of a
\* template the detector holds, and no dispatch is given a built-in id.
C37_BuiltinsNeverDispatched ==
  /\ ~enable_predefined_gestures
  /\ AfterFrame =>
       /\ \A i \in 1..Len(call.results) :
            \/ /\ call.results[i].gesture_type = "none"
               /\ call.results[i].gesture_id = ""
            \/ /\ call.results[i].gesture_type = "custom"
               /\ \E k \in 1..Len(camera_worker.detector.custom_templates) :
                    camera_worker.detector.custom_templates[k].gid =
                      call.results[i].gesture_id
       /\ call.gesture_id \notin PredefinedIds
       /\ sent # <<>> => call.gesture_id \in DOMAIN custom_gestures_data

\* a fist is shown with control on while the mapping of fist is enabled:
\* the dispatch is given the empty id and finds no mapping
C37_Witness ==
  /\ call.op = "process_control"
  /\ call.hands # <<>>
  /\ get_fingers_up(call.hands[1]) = FistFingers
  /\ mappings["fist"].enabled
  /\ call.results[1].gesture_type = "none"
  /\ call.stage = "no_mapping"
  /\ sent = <<>>

====
